---- MODULE Spec2Model ----
(***************************************************************************)
(* Realtime chat backend: the turn pipeline of backend/app.                *)
(*                                                                         *)
(*   Spec     one conversation, a request of any kind handled by           *)
(*            chat_socket / StreamingCoordinator, with the generation      *)
(*            client (LLMClient.stream_chat) running inside the turn.      *)
(*   SpecConv the same pipeline over several text turns of the             *)
(*            conversation, with a client that may rename it in between.   *)
(*   SpecLLM  LLMClient.stream_chat alone, driven by a caller that only    *)
(*            records what it receives, against a backend whose lines are  *)
(*            recorded as they are delivered.                              *)
(*   SpecClose text turns whose client may close the connection at any     *)
(*            moment of the turn, with the event loop finalizing the       *)
(*            generators that chat_socket leaves suspended.                *)
(*   SpecVoice handle_voice_message called with any pair of audio_path and *)
(*            stored_audio_path.                                           *)
(*   SpecTitle one call of get_conversation_title against every backend    *)
(*            answer to its three requests.                                *)
(*   SpecPaths one image or audio reference of a request on its way to the *)
(*            stored row and to the file that is read.                     *)
(*   SpecVad  one call of VoiceActivityDetector.trim_silence, and a second *)
(*            one on its result.                                           *)
(*   SpecFrag one text turn whose backend sends control tokens, whole or   *)
(*            in pieces.                                                   *)
(*   SpecBuild one text turn on a conversation that already holds rows,    *)
(*            some naming image files that may be missing.                 *)
(*   SpecOrder one text turn with the lines read from the backend kept.    *)
(*   SpecSession units of work of DatabaseManager.session.                 *)
(*   SpecPair text turns in progress at once on several channels for the   *)
(*            same conversation.                                           *)
(*                                                                         *)
(* Text is a sequence of tokens: one-character strings, plus the words     *)
(* "assistant" and "commentary to=" which the sanitizer looks for.         *)
(* Python's None is the string "None" where the value is a string and 0    *)
(* where it is a message id (ids start at 1).                              *)
(***************************************************************************)
EXTENDS Integers, Sequences, FiniteSets, TLC

VARIABLES
    db_title,       \* conversations.title of the conversation, or NoConv
    db_msgs,        \* the conversation's rows of messages, in id order
    chan,           \* chat_socket: "none", "idle", "turn", "closing", "crashed",
                    \* "disconnected"
    sent,           \* what send_json has delivered for the current request
    pending,        \* the StreamingChunk yielded to chat_socket and not sent yet
    turn,           \* the locals of handle_voice_message / handle_text_message
    turns,          \* requests received so far
    title_calls,    \* calls of get_conversation_title made for the conversation
    title_events,   \* conversation_title messages sent for the conversation
    voice_enabled,  \* SpeechService._enable_voice_output
    llm_pc,         \* where stream_chat is
    llm_out,        \* the event stream_chat has yielded to its caller
    llm_queue,      \* events of the line just read that are still to be yielded
    yields,         \* content events yielded so far by each protocol
    requests,       \* the backend requests stream_chat has made
    failures,       \* the protocols that raised in this generation
    wire,           \* SpecLLM: the lines the backend delivered, with their protocol
    received,       \* SpecLLM: what the caller of stream_chat got
    payload_in,     \* SpecLLM: the messages argument of stream_chat
    naming,         \* SpecTitle: the locals of one call of get_conversation_title
    media,          \* SpecPaths: one file reference on its way through a turn
    vad,            \* SpecVad: one call of VoiceActivityDetector.trim_silence
    unit,           \* SpecSession: the units of work of DatabaseManager.session
    pair            \* SpecPair: the turns of the channels open on the conversation

orch_vars == <<db_title, db_msgs, chan, sent, pending, turn, turns, title_calls,
               title_events, voice_enabled>>
llm_vars == <<llm_pc, llm_out, llm_queue, yields, requests, failures>>
probe_vars == <<wire, received, payload_in, naming, media, vad, unit, pair>>
vars == <<orch_vars, llm_vars, probe_vars>>

(***************************************************************************)
(* Bounds                                                                  *)
(***************************************************************************)
MaxRequests == 1    \* Spec: requests received on the conversation
MaxTurns == 2       \* SpecConv: turns handled on the conversation
MaxFrags == 2       \* content events one generation yields
MaxLines == 3       \* SpecLLM: lines the backend delivers in one generation
MaxWords == 6       \* SpecTitle: words in the text a title backend returns
MaxBytes == 5       \* SpecVad: bytes in the buffer handed to trim_silence
MaxHistory == 2     \* SpecBuild: rows the conversation holds when the turn starts
MaxUnits == 2       \* SpecSession: units of work opened one after the other
MaxChanges == 2     \* SpecSession: changes the body of one unit of work makes
MaxChannels == 2    \* SpecPair: channels with a turn on the same conversation

None == "None"
NoConv == "NoConv"
Placeholder == "New Conversation"

NL == "\n"
CR == "\r"
SP == " "
W_ASSISTANT == "assistant"
W_COMMENTARY == "commentary to="

Min(S) == CHOOSE m \in S : \A n \in S : m <= n

(***************************************************************************)
(* Strings as token sequences                                              *)
(***************************************************************************)
StartsWith(s, p) == Len(s) >= Len(p) /\ SubSeq(s, 1, Len(p)) = p

Tail_From(s, i) == SubSeq(s, i, Len(s))

RECURSIVE LStrip(_, _)
LStrip(s, chars) ==
    IF s # <<>> /\ s[1] \in chars THEN LStrip(Tail(s), chars) ELSE s

RECURSIVE RStrip(_, _)
RStrip(s, chars) ==
    IF s # <<>> /\ s[Len(s)] \in chars THEN RStrip(SubSeq(s, 1, Len(s) - 1), chars) ELSE s

Whitespace == {SP, NL, CR}

StrStrip(s) == RStrip(LStrip(s, Whitespace), Whitespace)

RECURSIVE Concat(_)
Concat(pieces) ==
    IF pieces = <<>> THEN <<>> ELSE Head(pieces) \o Concat(Tail(pieces))

RECURSIVE SplitOn(_, _)
SplitOn(s, sep) ==
    IF \A i \in 1..Len(s) : s[i] # sep
    THEN <<s>>
    ELSE LET i == Min({k \in 1..Len(s) : s[k] = sep})
         IN  <<SubSeq(s, 1, i - 1)>> \o SplitOn(Tail_From(s, i + 1), sep)

RECURSIVE JoinWith(_, _)
JoinWith(parts, sep) ==
    IF parts = <<>> THEN <<>>
    ELSE IF Len(parts) = 1 THEN parts[1]
    ELSE parts[1] \o <<sep>> \o JoinWith(Tail(parts), sep)

(***************************************************************************)
(* utils.clean_llm_text                                                    *)
(***************************************************************************)
\* CONTROL_PATTERN = <\|.*?\|> : "." matches anything but a newline, lazily.
ControlCloses(s, i) ==
    {j \in (i + 2)..(Len(s) - 1) :
        /\ s[j] = "|" /\ s[j + 1] = ">"
        /\ \A k \in (i + 2)..(j - 1) : s[k] # NL}

ControlOpensAt(s, i) ==
    /\ i + 1 <= Len(s)
    /\ s[i] = "<" /\ s[i + 1] = "|"
    /\ ControlCloses(s, i) # {}

RECURSIVE SubControl(_, _)
SubControl(s, i) ==
    IF i > Len(s) THEN <<>>
    ELSE IF ControlOpensAt(s, i)
         THEN SubControl(s, Min(ControlCloses(s, i)) + 2)
         ELSE <<s[i]>> \o SubControl(s, i + 1)

RemoveAll(s, ch) == SelectSeq(s, LAMBDA t : t # ch)

IsCommentaryLine(stripped) ==
    \/ StartsWith(stripped, <<W_ASSISTANT, W_COMMENTARY>>)
    \/ StartsWith(stripped, <<W_COMMENTARY>>)

RECURSIVE FilterLines(_)
FilterLines(lines) ==
    IF lines = <<>> THEN <<>>
    ELSE LET raw_line == Head(lines)
             stripped == StrStrip(raw_line)
         IN  IF stripped = <<>> THEN <<(<<>>)>> \o FilterLines(Tail(lines))
             ELSE IF IsCommentaryLine(stripped) THEN FilterLines(Tail(lines))
             ELSE <<raw_line>> \o FilterLines(Tail(lines))

clean_llm_text(raw) ==
    IF raw = <<>> THEN <<>>
    ELSE LET cleaned == RemoveAll(SubControl(raw, 1), CR)
             result == JoinWith(FilterLines(SplitOn(cleaned, NL)), NL)
         IN  IF StartsWith(result, <<W_ASSISTANT>>)
             THEN LStrip(Tail(result), {":", SP})
             ELSE result

(***************************************************************************)
(* Variables-dependent part: LLMClient (services/llm.py)                   *)
(***************************************************************************)
SystemPrompt == <<"SYSTEM">>

TextContent(t) == [kind |-> "text", text |-> t]
PartsContent(ps) == [kind |-> "parts", parts |-> ps]

\* f"{message['content']}": the text itself, or the repr of the parts list
FormatContent(c) ==
    IF c.kind = "text" THEN c.text
    ELSE <<"[">> \o Concat([i \in 1..Len(c.parts) |->
                    IF c.parts[i].type = "text"
                    THEN <<"{text}">> \o c.parts[i].text
                    ELSE <<"{image_url}", c.parts[i].url>>]) \o <<"]">>

PayloadMessages(msgs) ==
    <<[role |-> "system", content |-> TextContent(SystemPrompt)]>> \o msgs

\* "\n".join(f"{message['role']}: {message['content']}" for message in messages)
FormattedPrompt(msgs) ==
    JoinWith([i \in 1..Len(msgs) |->
                <<msgs[i].role, ":", SP>> \o FormatContent(msgs[i].content)], NL)

OpenAIRequest(msgs) ==
    [url |-> "/v1/chat/completions", messages |-> PayloadMessages(msgs), stream |-> TRUE]

GenerateRequest(payload_messages) ==
    [url |-> "/api/generate", prompt |-> FormattedPrompt(payload_messages), stream |-> TRUE]

MessageEvent(c) == [message |-> [content |-> c]]
DoneEvent == [done |-> TRUE]
IsDone(ev) == "done" \in DOMAIN ev
IsMessage(ev) == "message" \in DOMAIN ev
NoEvent == [none |-> TRUE]

\* What one line of the chat-completions stream makes _stream_openai do.
\* A line is [pre, body, content]: pre is "empty", "other" (no data: prefix) or
\* "data"; body is "[DONE]", "badjson" (json.loads raises, caught), "nochoices",
\* "delta" (choices[0].delta.content = content) or "notdict" (valid JSON on
\* which .get raises).
OpenAILineStep(line) ==
    IF line.pre # "data" THEN [act |-> "skip", out |-> <<>>]
    ELSE IF line.body = "[DONE]" THEN [act |-> "done", out |-> <<DoneEvent>>]
    ELSE IF line.body = "badjson" THEN [act |-> "skip", out |-> <<>>]
    ELSE IF line.body = "notdict" THEN [act |-> "raise", out |-> <<>>]
    ELSE IF line.body = "nochoices" THEN [act |-> "skip", out |-> <<>>]
    ELSE IF line.content # <<>> THEN [act |-> "yield", out |-> <<MessageEvent(line.content)>>]
    ELSE [act |-> "skip", out |-> <<>>]

\* _stream_llm with the done check ahead of the response check: the text of
\* the final chunk is lost
LLMLineStep_DoneFirst(line) ==
    IF line.body = "empty" THEN [act |-> "skip", out |-> <<>>]
    ELSE IF line.body = "badjson" THEN [act |-> "raise", out |-> <<>>]
    ELSE IF line.done THEN [act |-> "done", out |-> <<DoneEvent>>]
    ELSE IF line.has_response
         THEN [act |-> "yield", out |-> <<MessageEvent(line.response)>>]
    ELSE [act |-> "skip", out |-> <<>>]

\* What one line of the /api/generate stream makes _stream_llm do.
\* A line is [body, has_response, response, done]: body is "empty", "badjson"
\* (json.loads raises, not caught) or "chunk".
LLMLineStep(line) ==
    IF line.body = "empty" THEN [act |-> "skip", out |-> <<>>]
    ELSE IF line.body = "badjson" THEN [act |-> "raise", out |-> <<>>]
    ELSE LET msg == IF line.has_response THEN <<MessageEvent(line.response)>> ELSE <<>>
         IN  IF line.done THEN [act |-> "done", out |-> msg \o <<DoneEvent>>]
             ELSE IF line.has_response THEN [act |-> "yield", out |-> msg]
             ELSE [act |-> "skip", out |-> <<>>]

ContentCount(evs) == Cardinality({i \in 1..Len(evs) : IsMessage(evs[i])})

TotalYields == yields.primary + yields.fallback

LLMRunning == llm_pc \in {"p_connect", "p_stream", "f_connect", "f_stream", "finishing"}

\* The generator is suspended at a yield until its caller asks for the next event.
LLMCanStep == llm_out = NoEvent /\ llm_queue = <<>>

\* stream_chat is called: nothing happens until the caller first iterates.
LLMStart ==
    /\ llm_pc' = "p_connect"
    /\ llm_out' = NoEvent
    /\ llm_queue' = <<>>
    /\ yields' = [primary |-> 0, fallback |-> 0]
    /\ requests' = <<>>
    /\ failures' = {}

LLMReset ==
    /\ llm_pc' = "idle"
    /\ llm_out' = NoEvent
    /\ llm_queue' = <<>>
    /\ yields' = [primary |-> 0, fallback |-> 0]
    /\ requests' = <<>>
    /\ failures' = {}

\* except Exception in stream_chat: every failure of _stream_openai, whenever it
\* happens, is logged and leads on to _stream_llm.
AfterPrimaryFailure == "f_connect"

\* stream_chat with the fallback's exception caught and logged as well
AfterFallbackFailure_Swallow == "returned"

\* an exception of _stream_llm leaves stream_chat: nothing catches it
AfterFallbackFailure == "raised"

\* stream_chat that treats a primary stream without content as a failure
AfterPrimaryReturn_EmptyFallsBack(count) ==
    IF count = 0 THEN "f_connect" ELSE "returned"

\* "return" after the loop over _stream_openai, whatever number of chunks the
\* loop forwarded
AfterPrimaryReturn(count) == "returned"

\* self._client.stream("POST", .../v1/chat/completions) and raise_for_status()
PrimaryConnect(msgs, ok) ==
    /\ llm_pc = "p_connect" /\ LLMCanStep
    /\ requests' = Append(requests, OpenAIRequest(msgs))
    /\ llm_pc' = IF ok THEN "p_stream" ELSE AfterPrimaryFailure
    /\ failures' = IF ok THEN failures ELSE failures \cup {"primary"}
    /\ UNCHANGED <<llm_out, llm_queue, yields>>

\* one iteration of "async for raw_line in response.aiter_lines()"
PrimaryRead(line, log) ==
    /\ llm_pc = "p_stream" /\ LLMCanStep
    /\ log => Len(wire) < MaxLines
    /\ LET r == OpenAILineStep(line)
       IN  /\ ContentCount(r.out) > 0 => TotalYields < MaxFrags
           /\ llm_pc' = CASE r.act = "raise" -> AfterPrimaryFailure
                          [] r.act = "done" -> "finishing"
                          [] OTHER -> "p_stream"
           /\ failures' = IF r.act = "raise" THEN failures \cup {"primary"} ELSE failures
           /\ llm_out' = IF r.out = <<>> THEN NoEvent ELSE Head(r.out)
           /\ llm_queue' = IF r.out = <<>> THEN <<>> ELSE Tail(r.out)
           /\ yields' = [yields EXCEPT !.primary = @ + ContentCount(r.out)]
    /\ wire' = IF log THEN Append(wire, [proto |-> "primary", line |-> line]) ELSE wire
    /\ UNCHANGED requests

\* aiter_lines raises (the connection drops), or ends without [DONE]
PrimaryEnd(how) ==
    /\ llm_pc = "p_stream" /\ LLMCanStep
    /\ llm_pc' = IF how = "error" THEN AfterPrimaryFailure
                 ELSE AfterPrimaryReturn(yields.primary)
    /\ failures' = IF how = "error" THEN failures \cup {"primary"} ELSE failures
    /\ UNCHANGED <<llm_out, llm_queue, yields, requests>>

\* self._client.stream("POST", .../api/generate) and raise_for_status()
FallbackConnect(msgs, ok) ==
    /\ llm_pc = "f_connect" /\ LLMCanStep
    /\ requests' = Append(requests, GenerateRequest(PayloadMessages(msgs)))
    /\ llm_pc' = IF ok THEN "f_stream" ELSE AfterFallbackFailure
    /\ failures' = IF ok THEN failures ELSE failures \cup {"fallback"}
    /\ UNCHANGED <<llm_out, llm_queue, yields>>

\* one iteration of "async for line in response.aiter_lines()"
FallbackRead(line, log) ==
    /\ llm_pc = "f_stream" /\ LLMCanStep
    /\ log => Len(wire) < MaxLines
    /\ LET r == LLMLineStep(line)
       IN  /\ ContentCount(r.out) > 0 => TotalYields < MaxFrags
           /\ llm_pc' = CASE r.act = "raise" -> AfterFallbackFailure
                          [] r.act = "done" -> "finishing"
                          [] OTHER -> "f_stream"
           /\ failures' = IF r.act = "raise" THEN failures \cup {"fallback"} ELSE failures
           /\ llm_out' = IF r.out = <<>> THEN NoEvent ELSE Head(r.out)
           /\ llm_queue' = IF r.out = <<>> THEN <<>> ELSE Tail(r.out)
           /\ yields' = [yields EXCEPT !.fallback = @ + ContentCount(r.out)]
    /\ wire' = IF log THEN Append(wire, [proto |-> "fallback", line |-> line]) ELSE wire
    /\ UNCHANGED requests

FallbackEnd(how) ==
    /\ llm_pc = "f_stream" /\ LLMCanStep
    /\ llm_pc' = IF how = "error" THEN AfterFallbackFailure ELSE "returned"
    /\ failures' = IF how = "error" THEN failures \cup {"fallback"} ELSE failures
    /\ UNCHANGED <<llm_out, llm_queue, yields, requests>>

\* the caller asked for the next event and the line just read has one more
LLMResume ==
    /\ llm_out = NoEvent /\ llm_queue # <<>>
    /\ llm_out' = Head(llm_queue)
    /\ llm_queue' = Tail(llm_queue)
    /\ UNCHANGED <<llm_pc, yields, requests, failures>>

\* after "yield {done: True}; break" the generator ends
LLMReturn ==
    /\ llm_pc = "finishing" /\ LLMCanStep
    /\ llm_pc' = IF Len(requests) = 1 THEN AfterPrimaryReturn(yields.primary)
                 ELSE "returned"
    /\ UNCHANGED <<llm_out, llm_queue, yields, requests, failures>>

(***************************************************************************)
(* Title inference (services/llm_naming.py)                                *)
(*                                                                         *)
(* A JSON value is [t, s, c]: t is "null", "str", "num" or "dict"; s is the *)
(* text of a string, the digit of a number, or the "content" string of a   *)
(* message object; c tells, for an object, what its "content" is: "empty"  *)
(* (the object is {}), "absent", "num" or "str".                           *)
(***************************************************************************)
JV(t, s, c) == [t |-> t, s |-> s, c |-> c]
JNull == JV("null", <<>>, "")
JStr(str) == JV("str", str, "")
JNum(digit) == JV("num", <<digit>>, "")
JEmptyDict == JV("dict", <<>>, "empty")
JMsg(c, str) == JV("dict", str, c)

\* Python truth value of a JSON value
Truthy(v) ==
    CASE v.t = "null" -> FALSE
      [] v.t = "str" -> v.s # <<>>
      [] v.t = "num" -> v.s # <<"0">>
      [] OTHER -> v.c # "empty"

\* what a title request function does: return a value, or raise
Returns(v) == [act |-> "return", value |-> v]
Raises == [act |-> "raise", value |-> JNull]

\* _make_title_request: the decoded body, or None when the request, the status
\* or the decoding of the body fails
NoData ==
    [kind |-> "none", choices |-> "absent", choice_message |-> JNull,
     response |-> JNull, message |-> JNull]

_make_title_request(resp) == IF resp.net = "json" THEN resp.data ELSE NoData

_extract_message_text(message) ==
    IF message.t # "dict" THEN JNull
    ELSE IF message.c = "str" /\ StrStrip(message.s) # <<>> THEN JStr(StrStrip(message.s))
    ELSE JNull

\* data.choices is "absent", "empty" ([]), "badtype" (not a list), "notdict"
\* (a list whose first item is no object) or "dict" (first item is an object
\* whose "message" is choice_message)
_request_openai_style_title(resp) ==
    LET data == _make_title_request(resp)
    IN  IF data.kind # "dict" THEN Returns(JNull)
        ELSE IF data.choices \in {"absent", "empty"} THEN Returns(JNull)
        ELSE IF data.choices \in {"badtype", "notdict"} THEN Raises
        ELSE Returns(_extract_message_text(data.choice_message))

\* return data.get("response") or data.get("message")
_request_LLM_title(resp) ==
    LET data == _make_title_request(resp)
    IN  IF data.kind # "dict" THEN Returns(JNull)
        ELSE Returns(IF Truthy(data.response) THEN data.response ELSE data.message)

_request_LLM_chat_title(resp) ==
    LET data == _make_title_request(resp)
        message == IF Truthy(data.message) THEN data.message ELSE data.response
    IN  IF data.kind # "dict" THEN Returns(JNull)
        ELSE IF message.t = "dict" THEN Returns(_extract_message_text(message))
        ELSE IF message.t = "str" THEN Returns(message)
        ELSE Returns(JNull)

\* the quote characters are the tokens "dquote", "squote" and "backtick"
TitleQuotes == {"dquote", "squote", "backtick"}
TitlePunct == {"-", ":", ";", ",", ".", "!", "?"}
TitleLabels == {<<"title">>, <<"conversation">>}

Lower(tok) ==
    CASE tok = "Title" -> "title"
      [] tok = "Conversation" -> "conversation"
      [] OTHER -> tok

LowerAll(str) == [i \in 1..Len(str) |-> Lower(str[i])]

Strip(str, chars) == RStrip(LStrip(str, chars), chars)

RECURSIVE CollapseRuns(_, _)
\* re.sub(r"[chars]+", " ", str)
CollapseRuns(str, chars) ==
    IF str = <<>> THEN <<>>
    ELSE IF str[1] \in chars THEN <<SP>> \o CollapseRuns(LStrip(str, chars), chars)
    ELSE <<str[1]>> \o CollapseRuns(Tail(str), chars)

RECURSIVE SplitWords(_)
\* str.split()
SplitWords(str) ==
    LET t == LStrip(str, Whitespace)
    IN  IF t = <<>> THEN <<>>
        ELSE LET stops == {k \in 1..Len(t) : t[k] \in Whitespace}
                 n == IF stops = {} THEN Len(t) + 1 ELSE Min(stops)
             IN  <<SubSeq(t, 1, n - 1)>> \o SplitWords(Tail_From(t, n))

\* parts = title.split(":", maxsplit=1); a leading "Title:" label is dropped
DropLabel(title) ==
    LET colons == {k \in 1..Len(title) : title[k] = ":"}
    IN  IF colons = {} THEN title
        ELSE LET i == Min(colons)
             IN  IF LowerAll(StrStrip(SubSeq(title, 1, i - 1))) \in TitleLabels
                 THEN Tail_From(title, i + 1)
                 ELSE title

\* the title _sanitize_title counts the words of
CleanTitle(raw) ==
    LET unlabelled == DropLabel(StrStrip(raw))
        unquoted == Strip(StrStrip(unlabelled), TitleQuotes)
        one_line == CollapseRuns(unquoted, {CR, NL})
        spaced == CollapseRuns(one_line, Whitespace)
    IN  Strip(StrStrip(spaced), TitlePunct)

NoTitle == [kind |-> "none", title |-> <<>>]
TitleRaised == [kind |-> "raise", title |-> <<>>]
TitleIs(title) == [kind |-> "title", title |-> title]

\* _sanitize_title without the cut to five words
_sanitize_title_NoTruncate(raw_title) ==
    IF ~Truthy(raw_title) THEN NoTitle
    ELSE IF raw_title.t # "str" THEN TitleRaised
    ELSE IF StrStrip(raw_title.s) = <<>> THEN NoTitle
    ELSE LET title == CleanTitle(raw_title.s)
         IN  IF title = <<>> THEN NoTitle
             ELSE IF Len(SplitWords(title)) < 2 THEN NoTitle
             ELSE TitleIs(title)

\* _sanitize_title(raw_title); a value that is not a string has no strip()
_sanitize_title(raw_title) ==
    IF ~Truthy(raw_title) THEN NoTitle
    ELSE IF raw_title.t # "str" THEN TitleRaised
    ELSE IF StrStrip(raw_title.s) = <<>> THEN NoTitle
    ELSE LET title == CleanTitle(raw_title.s)
             words == SplitWords(title)
         IN  IF title = <<>> THEN NoTitle
             ELSE IF Len(words) < 2 THEN NoTitle
             ELSE IF Len(words) > 5 THEN TitleIs(JoinWith(SubSeq(words, 1, 5), SP))
             ELSE TitleIs(title)

IdleNaming ==
    [pc |-> "idle", user_message |-> <<>>, assistant_message |-> <<>>,
     urls |-> <<>>, values |-> <<>>, title |-> JNull, result |-> NoTitle]

\* no file reference is being followed
IdleMedia ==
    [pc |-> "idle", kind |-> None, ref |-> <<>>, path |-> <<>>, stored |-> <<>>,
     row |-> <<>>, read |-> <<>>]

\* trim_silence has not been called
IdleVad ==
    [pc |-> "idle", pcm16 |-> <<>>, frames |-> <<>>, speech_flags |-> <<>>,
     result |-> <<>>, again |-> <<>>, classified |-> <<>>]

\* the locals of handle_text_message on one channel, before its turn
IdlePairTurn ==
    [pc |-> "idle", text |-> <<>>, user_message_id |-> 0, messages |-> <<>>,
     buffer |-> <<>>, assistant_message_id |-> 0, proposal |-> None,
     new_title |-> None, title_calls |-> 0, title_events |-> 0]

Channels == 1..MaxChannels

IdlePair == [c \in Channels |-> IdlePairTurn]

\* no unit of work has been opened
IdleUnit ==
    [pc |-> "idle", made |-> FALSE, session_open |-> FALSE, tx |-> "none",
     changes |-> <<>>, before |-> <<>>, store |-> <<>>, error |-> None,
     count |-> 0, opened |-> 0, closed |-> 0, rollbacks |-> 0]

(***************************************************************************)
(* SpecLLM: stream_chat and a caller that records what it is given         *)
(***************************************************************************)
Contents == {<<>>, <<"a">>, <<"b">>}

OpenAILines ==
    {[pre |-> "empty", body |-> "", content |-> <<>>],
     [pre |-> "other", body |-> "", content |-> <<>>]}
    \cup [pre : {"data"}, body : {"[DONE]", "badjson", "nochoices", "notdict"},
          content : {<<>>}]
    \cup [pre : {"data"}, body : {"delta"}, content : Contents]

LLMLines ==
    [body : {"empty", "badjson"}, has_response : {FALSE}, response : {<<>>},
     done : {FALSE}]
    \cup [body : {"chunk"}, has_response : {FALSE}, response : {<<>>}, done : BOOLEAN]
    \cup [body : {"chunk"}, has_response : {TRUE}, response : Contents, done : BOOLEAN]

UserMsg(t) == [role |-> "user", content |-> TextContent(t)]
AssistantMsg(t) == [role |-> "assistant", content |-> TextContent(t)]
ImageMsg(t) ==
    [role |-> "user",
     content |-> PartsContent(<<[type |-> "image_url", url |-> "data:image/png;base64"],
                                [type |-> "text", text |-> t]>>)]

MessageLists ==
    {<<>>,
     <<UserMsg(<<"h", "i">>)>>,
     <<UserMsg(<<"h", "i">>), AssistantMsg(<<"a">>), ImageMsg(<<"b">>)>>}

IdleTurn ==
    [pc |-> "idle", fail_at |-> None, kind |-> None, text |-> <<>>,
     image_path |-> <<>>, stored_image_path |-> <<>>, audio_path |-> <<>>,
     user_audio_path |-> <<>>,
     user_message_id |-> 0, assistant_message_id |-> 0, new_title |-> None,
     proposal |-> None, messages |-> <<>>, llm_messages |-> <<>>, buffer |-> <<>>,
     stream_done |-> FALSE, synth |-> None, checked_title |-> None,
     title_calls |-> 0, renames |-> 0, inserted |-> <<>>,
     synth_calls |-> 0, synth_text |-> <<>>, synth_error |-> None,
     req |-> [conversation_id |-> None, type |-> None, has_audio |-> FALSE],
     after_rejected |-> FALSE,
     closed_at |-> None, closed_yields |-> 0]

NoChunk == [none |-> TRUE]

OrchIdle ==
    /\ db_title = NoConv
    /\ db_msgs = <<>>
    /\ chan = "none"
    /\ sent = <<>>
    /\ pending = NoChunk
    /\ turn = IdleTurn
    /\ turns = 0
    /\ title_calls = 0
    /\ title_events = 0
    /\ voice_enabled = FALSE

LLMIdle ==
    /\ llm_pc = "idle"
    /\ llm_out = NoEvent
    /\ llm_queue = <<>>
    /\ yields = [primary |-> 0, fallback |-> 0]
    /\ requests = <<>>
    /\ failures = {}

InitLLM ==
    /\ OrchIdle
    /\ LLMIdle
    /\ wire = <<>>
    /\ received = <<>>
    /\ payload_in \in MessageLists
    /\ naming = IdleNaming
    /\ media = IdleMedia
    /\ vad = IdleVad
    /\ unit = IdleUnit
    /\ pair = IdlePair

\* the caller calls stream_chat(messages) and starts iterating
CallerStart ==
    /\ llm_pc = "idle"
    /\ LLMStart
    /\ UNCHANGED <<orch_vars, probe_vars>>

\* "async for chunk in ...": the caller is handed the event and asks for the next
CallerReceive ==
    /\ llm_out # NoEvent
    /\ received' = Append(received, llm_out)
    /\ llm_out' = NoEvent
    /\ UNCHANGED <<orch_vars, llm_pc, llm_queue, yields, requests, failures, wire,
                   payload_in, naming, media, vad, unit, pair>>

ProbePrimaryConnect ==
    /\ \E ok \in BOOLEAN : PrimaryConnect(payload_in, ok)
    /\ UNCHANGED <<orch_vars, probe_vars>>

ProbePrimaryRead ==
    /\ \E line \in OpenAILines : PrimaryRead(line, TRUE)
    /\ UNCHANGED <<orch_vars, received, payload_in, naming, media, vad, unit, pair>>

ProbePrimaryEnd ==
    /\ \E how \in {"error", "eof"} : PrimaryEnd(how)
    /\ UNCHANGED <<orch_vars, probe_vars>>

ProbeFallbackConnect ==
    /\ \E ok \in BOOLEAN : FallbackConnect(payload_in, ok)
    /\ UNCHANGED <<orch_vars, probe_vars>>

ProbeFallbackRead ==
    /\ \E line \in LLMLines : FallbackRead(line, TRUE)
    /\ UNCHANGED <<orch_vars, received, payload_in, naming, media, vad, unit, pair>>

ProbeFallbackEnd ==
    /\ \E how \in {"error", "eof"} : FallbackEnd(how)
    /\ UNCHANGED <<orch_vars, probe_vars>>

ProbeResume ==
    /\ LLMResume
    /\ UNCHANGED <<orch_vars, probe_vars>>

ProbeReturn ==
    /\ LLMReturn
    /\ UNCHANGED <<orch_vars, probe_vars>>

NextLLM ==
    \/ CallerStart
    \/ CallerReceive
    \/ ProbePrimaryConnect
    \/ ProbePrimaryRead
    \/ ProbePrimaryEnd
    \/ ProbeFallbackConnect
    \/ ProbeFallbackRead
    \/ ProbeFallbackEnd
    \/ ProbeResume
    \/ ProbeReturn

SpecLLM == InitLLM /\ [][NextLLM]_vars

(***************************************************************************)
(* Paths (token sequences; "/" and "\" are tokens, <<>> is None or "")     *)
(***************************************************************************)
MediaRoot == <<"/", "srv", "/", "media">>
OutputDir == MediaRoot \o <<"/", "audio", "/", "responses">>

IsAbsolute(p) == p # <<>> /\ p[1] = "/"

IsRelativeTo(p, root) ==
    StartsWith(p, root) /\ (Len(p) = Len(root) \/ p[Len(root) + 1] = "/")

\* Path.relative_to(root), for a path under root
RelativeTo(p, root) == Tail_From(p, Len(root) + 2)

BackslashToSlash(p) == [i \in 1..Len(p) |-> IF p[i] = "\\" THEN "/" ELSE p[i]]

\* conversations._normalize_media_path
_normalize_media_path(path) ==
    IF path = <<>> THEN <<>>
    ELSE LET replaced == BackslashToSlash(path)
             value == IF StartsWith(replaced, <<"/", "media", "/">>)
                      THEN Tail_From(replaced, 4) ELSE replaced
         IN  IF IsAbsolute(path)
             THEN IF IsRelativeTo(path, MediaRoot)
                  THEN RelativeTo(path, MediaRoot) ELSE value
             ELSE value

(***************************************************************************)
(* Persistence (services/conversations.py, storage/database.py)            *)
(***************************************************************************)
\* DatabaseManager.session: commit when the body succeeds, rollback when the
\* body or the commit raises
session(before, after, ok) == IF ok THEN after ELSE before

NextId == Len(db_msgs) + 1

Row(id, role, content, audio_path, image_path) ==
    [id |-> id, role |-> role, content |-> content,
     audio_path |-> _normalize_media_path(audio_path),
     image_path |-> _normalize_media_path(image_path)]

\* add_message: the conversation is created with the placeholder title when it
\* is missing, the row is appended with the next id
add_message_title(title) == IF title = NoConv THEN Placeholder ELSE title

add_message_rows(rows, role, content, image_path) ==
    Append(rows, Row(Len(rows) + 1, role, content, <<>>, image_path))

\* update_message_audio_path: no row with that id, no change
update_message_audio_path(rows, message_id, audio_path) ==
    [i \in 1..Len(rows) |->
        IF rows[i].id = message_id
        THEN [rows[i] EXCEPT !.audio_path = _normalize_media_path(audio_path)]
        ELSE rows[i]]

\* handle_text_message with a cleanup that deletes the turn's user row when a
\* later stage raises
RowsAfterTurnException_Compensate(rows, user_id) ==
    SelectSeq(rows, LAMBDA r : r.id # user_id)

\* handle_text_message has no except and no finally: when a stage raises, the
\* rows committed so far are left as they are
RowsAfterTurnException(rows, user_id) == rows

(***************************************************************************)
(* chat_socket (routes/websocket.py)                                       *)
(***************************************************************************)
Texts == {<<>>, <<"h", "i">>}
ImageRefs == {<<>>, <<"pic.png">>, MediaRoot \o <<"/", "pic.png">>}
AudioRefs == {<<>>, <<"in.wav">>, MediaRoot \o <<"/", "in.wav">>}
ConversationId == "c1"

Payloads ==
    [conversation_id : {ConversationId}, type : {"text"}, text : Texts,
     image_path : ImageRefs, audio_path : {<<>>}]
    \cup [conversation_id : {ConversationId}, type : {"audio"}, text : {<<>>},
          image_path : {<<>>}, audio_path : AudioRefs]
    \cup [conversation_id : {None, ConversationId}, type : {None, "video"},
          text : {<<>>}, image_path : {<<>>}, audio_path : {<<>>}]
    \cup [conversation_id : {None}, type : {"text"}, text : {<<"h", "i">>},
          image_path : {<<>>}, audio_path : {<<>>}]

\* the error chat_socket answers a payload with, or None when it is dispatched
PayloadError(payload) ==
    IF payload.conversation_id = None \/ payload.type = None THEN "invalid_payload"
    ELSE IF payload.type = "text" THEN None
    ELSE IF payload.type = "audio"
         THEN IF payload.audio_path = <<>> THEN "missing_audio_path" ELSE None
    ELSE "unsupported_type"

\* raw.relative_to(media_root).as_posix() / raw.as_posix(), as chat_socket
\* computes the stored reference of an image or audio file
StoredRef(ref) ==
    IF ref = <<>> THEN <<>>
    ELSE IF IsAbsolute(ref)
         THEN IF IsRelativeTo(ref, MediaRoot) THEN RelativeTo(ref, MediaRoot) ELSE ref
         ELSE ref

AbsoluteRef(ref) ==
    IF ref = <<>> THEN <<>>
    ELSE IF IsAbsolute(ref) THEN ref ELSE MediaRoot \o <<"/">> \o ref

Chunk(type, data) == [type |-> type, data |-> data]

\* chat_socket catches WebSocketDisconnect only: when the coordinator raises,
\* the exception leaves chat_socket and nothing more is sent on the channel
SentAfterTurnException(log, stage) == log

\* the coordinator runs: chat_socket is in its "async for" and no chunk waits to
\* be sent; "closing" is a channel the client has closed and chat_socket, which
\* reads nothing during a turn, has not noticed
InTurn == chan \in {"turn", "closing"} /\ pending = NoChunk

TurnFails(stage) ==
    /\ turn' = [turn EXCEPT !.pc = "failed", !.fail_at = stage]
    /\ chan' = "crashed"
    /\ sent' = SentAfterTurnException(sent, stage)

\* socket.accept() for a new connection
Accept ==
    /\ chan \in {"none", "crashed", "disconnected"}
    /\ chan' = "idle"
    /\ UNCHANGED <<db_title, db_msgs, sent, pending, turn, turns, title_calls,
                   title_events, voice_enabled, llm_vars, probe_vars>>

\* what chat_socket looks at in a payload before it dispatches it
RequestOf(payload) ==
    [conversation_id |-> payload.conversation_id, type |-> payload.type,
     has_audio |-> payload.audio_path # <<>>]

\* chat_socket that returns after answering a malformed request
AfterRejection_Close == "disconnected"

\* "continue" after send_json({"error": ...}): back to receive_json
AfterRejection == "idle"

\* the client closes the connection during a turn
PeerClose ==
    /\ chan = "turn"
    /\ chan' = "closing"
    /\ turn' = [turn EXCEPT !.closed_at = turn.pc, !.closed_yields = TotalYields]
    /\ UNCHANGED <<db_title, db_msgs, sent, pending, turns, title_calls, title_events,
                   voice_enabled, llm_vars, probe_vars>>

\* await socket.send_json(...) raises on the closed channel: chat_socket
\* returns (WebSocketDisconnect) or is left by the exception
SendFails ==
    /\ chan = "closing" /\ pending # NoChunk
    /\ chan' = "disconnected"
    /\ pending' = NoChunk
    /\ turn' = [turn EXCEPT !.pc = "aborted"]
    /\ UNCHANGED <<db_title, db_msgs, sent, turns, title_calls, title_events,
                   voice_enabled, llm_vars, probe_vars>>

\* a turn was left at its yield and its stream_chat still holds a backend stream
Abandoned == turn.pc = "aborted" /\ LLMRunning

\* stream_chat with "except BaseException": the close is logged as a failure of
\* the primary and the fallback request is made
AfterGeneratorExit_Fallback == "f_connect"

\* GeneratorExit is not an Exception: "except Exception" lets it through, the
\* "async with self._client.stream(...)" block exits and stream_chat ends
AfterGeneratorExit == "closed"

\* the event loop finalizes the generators that chat_socket left suspended:
\* GeneratorExit at the yield of handle_text_message, of stream_chat and of
\* _stream_openai / _stream_llm, whose "async with" closes the response
Finalize ==
    /\ Abandoned
    /\ llm_pc' = AfterGeneratorExit
    /\ llm_out' = NoEvent
    /\ llm_queue' = <<>>
    /\ UNCHANGED <<yields, requests, failures, orch_vars, probe_vars>>

\* payload = await socket.receive_json() and the dispatch on its type; the
\* model holds one generation, so an abandoned one is finalized first
Receive(payload, limit) ==
    /\ chan = "idle" /\ turns < limit
    /\ ~Abandoned
    /\ turns' = turns + 1
    /\ pending' = NoChunk
    /\ LLMReset
    /\ LET err == PayloadError(payload)
       IN  IF err # None
           THEN /\ sent' = <<[error |-> err]>>
                /\ turn' = [IdleTurn EXCEPT !.pc = "rejected",
                                            !.req = RequestOf(payload),
                                            !.after_rejected = (turn.pc = "rejected")]
                /\ chan' = AfterRejection
           ELSE /\ sent' = <<>>
                /\ chan' = "turn"
                /\ turn' =
                     IF payload.type = "text"
                     THEN [IdleTurn EXCEPT
                               !.pc = "add_user", !.kind = "text",
                               !.req = RequestOf(payload),
                               !.after_rejected = (turn.pc = "rejected"),
                               !.text = payload.text,
                               !.image_path = AbsoluteRef(payload.image_path),
                               !.stored_image_path = StoredRef(payload.image_path)]
                     ELSE [IdleTurn EXCEPT
                               !.pc = "transcribe", !.kind = "audio",
                               !.req = RequestOf(payload),
                               !.after_rejected = (turn.pc = "rejected"),
                               !.audio_path = AbsoluteRef(payload.audio_path),
                               !.user_audio_path =
                                   BackslashToSlash(StoredRef(payload.audio_path))]
    /\ UNCHANGED <<db_title, db_msgs, title_calls, title_events, voice_enabled,
                   probe_vars>>

\* await socket.send_json({"type": chunk.type, "data": chunk.data})
Send ==
    /\ chan = "turn" /\ pending # NoChunk
    /\ sent' = Append(sent, pending)
    /\ pending' = NoChunk
    /\ title_events' = title_events + (IF pending.type = "conversation_title" THEN 1 ELSE 0)
    /\ UNCHANGED <<db_title, db_msgs, chan, turn, turns, title_calls, voice_enabled,
                   llm_vars, probe_vars>>

\* WebSocketDisconnect out of receive_json or send_json: chat_socket returns
Disconnect ==
    /\ \/ chan = "idle"
       \/ chan = "turn" /\ pending # NoChunk
    /\ chan' = "disconnected"
    /\ pending' = NoChunk
    /\ turn' = IF chan = "turn" THEN [turn EXCEPT !.pc = "aborted"] ELSE turn
    /\ UNCHANGED <<db_title, db_msgs, sent, turns, title_calls, title_events,
                   voice_enabled, llm_vars, probe_vars>>

(***************************************************************************)
(* SpeechService (services/audio.py)                                       *)
(***************************************************************************)
RECURSIVE CollapseSpaces(_)
\* re.sub(r" {2,}", " ", s)
CollapseSpaces(s) ==
    IF Len(s) < 2 THEN s
    ELSE IF s[1] = SP /\ s[2] = SP THEN CollapseSpaces(Tail(s))
    ELSE <<s[1]>> \o CollapseSpaces(Tail(s))

\* the text synthesize_speech hands to the engine
SynthesisText(t) ==
    LET normalized_text == StrStrip(t)
    IN  IF \E i \in 1..Len(normalized_text) : normalized_text[i] = "*"
        THEN CollapseSpaces(RemoveAll(normalized_text, "*"))
        ELSE normalized_text

SynthesizedFile == OutputDir \o <<"/", "reply.wav">>

\* synthesize_speech that does not look at enable_voice_output
synthesize_speech_IgnoreDisabled(t, enabled, engine) ==
    IF SynthesisText(t) = <<>> THEN [result |-> "none", path |-> <<>>, attempted |-> FALSE]
    ELSE IF engine = "engine_error" THEN [result |-> "none", path |-> <<>>, attempted |-> TRUE]
    ELSE IF engine = "write_error" THEN [result |-> "raise", path |-> <<>>, attempted |-> TRUE]
    ELSE [result |-> "path", path |-> SynthesizedFile, attempted |-> TRUE]

\* synthesize_speech(text): a path, None, or "raise". engine is what Kokoro and
\* the file write do when they are reached: "ok", "engine_error", "write_error".
\* initialize() builds the engine whenever voice output is enabled.
synthesize_speech(t, enabled, engine) ==
    IF ~enabled THEN [result |-> "none", path |-> <<>>, attempted |-> FALSE]
    ELSE IF SynthesisText(t) = <<>> THEN [result |-> "none", path |-> <<>>, attempted |-> FALSE]
    ELSE IF engine = "engine_error" THEN [result |-> "none", path |-> <<>>, attempted |-> TRUE]
    ELSE IF engine = "write_error" THEN [result |-> "raise", path |-> <<>>, attempted |-> TRUE]
    ELSE [result |-> "path", path |-> SynthesizedFile, attempted |-> TRUE]

EngineOutcomes == {"ok", "engine_error", "write_error"}

(***************************************************************************)
(* StreamingCoordinator (services/streaming.py)                            *)
(***************************************************************************)
\* get_conversation_title awaited inside the with block of the title check
OpenSessions_TitleInBlock(pc) ==
    IF pc \in {"add_user", "attach_audio", "load", "after_stream", "title_check",
               "title_infer", "title_rename", "attach_synth"}
    THEN 1 ELSE 0

\* The sessions a turn holds while it is at pc.  "async with db.session()" is
\* entered and left inside add_message ("add_user", "after_stream"),
\* update_message_audio_path ("attach_audio", "attach_synth"), _load_messages
\* ("load"), the title check of _maybe_assign_conversation_title
\* ("title_check") and rename_conversation ("title_rename"); transcribe_audio,
\* the loop over stream_chat, get_conversation_title and synthesize_speech are
\* awaited outside every with block, and so is every yield.
OpenSessions(pc) ==
    IF pc \in {"add_user", "attach_audio", "load", "after_stream", "title_check",
               "title_rename", "attach_synth"}
    THEN 1 ELSE 0

\* where a turn awaits a service outside the process
ExternalWaits == {"transcribe", "stream", "title_infer", "synth"}

\* handle_voice_message that returns after the event when nothing was heard
AfterTranscription_SkipEmpty(transcription) ==
    IF transcription = <<>> THEN "done" ELSE "add_user"

\* handle_voice_message calls handle_text_message whatever the transcript is
AfterTranscription(transcription) == "add_user"

\* speech_service.transcribe_audio, the transcription chunk, and the call of
\* handle_text_message
Transcribe(ok, outcome) ==
    /\ InTurn /\ turn.pc = "transcribe"
    /\ IF ~ok
       THEN /\ TurnFails("transcribe")
            /\ UNCHANGED pending
       ELSE /\ pending' = Chunk("transcription",
                   [content |-> outcome,
                    audio_path |-> IF turn.user_audio_path # <<>>
                                   THEN BackslashToSlash(turn.user_audio_path)
                                   ELSE BackslashToSlash(turn.audio_path)])
            /\ turn' = [turn EXCEPT !.pc = AfterTranscription(outcome), !.text = outcome]
            /\ UNCHANGED <<chan, sent>>
    /\ UNCHANGED <<db_title, db_msgs, turns, title_calls, title_events, voice_enabled,
                   llm_vars, probe_vars>>

\* user_message = await add_message(conversation_id, role="user", ...)
AddUser(ok) ==
    /\ InTurn /\ turn.pc = "add_user"
    /\ LET image == IF turn.stored_image_path # <<>> THEN turn.stored_image_path
                    ELSE turn.image_path
       IN  /\ db_msgs' = session(db_msgs,
                                 add_message_rows(db_msgs, "user", turn.text, image), ok)
           /\ db_title' = session(db_title, add_message_title(db_title), ok)
    /\ IF ok
       THEN /\ turn' = [turn EXCEPT
                   !.pc = IF turn.user_audio_path # <<>> THEN "attach_audio" ELSE "load",
                   !.user_message_id = NextId,
                   !.inserted = Append(@, NextId)]
            /\ UNCHANGED <<chan, sent>>
       ELSE TurnFails("add_user")
    /\ UNCHANGED <<pending, turns, title_calls, title_events, voice_enabled,
                   llm_vars, probe_vars>>

\* if user_audio_path: await update_message_audio_path(user_message.id, ...)
AttachUserAudio(ok) ==
    /\ InTurn /\ turn.pc = "attach_audio"
    /\ IF ok
       THEN /\ db_msgs' = update_message_audio_path(db_msgs, turn.user_message_id,
                                                    turn.user_audio_path)
            /\ turn' = [turn EXCEPT !.pc = "load"]
            /\ UNCHANGED <<chan, sent>>
       ELSE /\ db_msgs' = RowsAfterTurnException(db_msgs, turn.user_message_id)
            /\ TurnFails("attach_audio")
    /\ UNCHANGED <<db_title, pending, turns, title_calls, title_events, voice_enabled,
                   llm_vars, probe_vars>>

\* _load_messages: the rows of the conversation ordered by id
_load_messages(rows) ==
    [i \in 1..Len(rows) |->
        [role |-> rows[i].role, content |-> rows[i].content,
         image_path |-> rows[i].image_path]]

\* the image files a stored row may name; _image_path_to_data_uri finds the
\* ones that exist under the media root (path.exists())
ImageFiles ==
    {_normalize_media_path(ref) : ref \in ImageRefs \ {<<>>}} \cup {<<"two.png">>}

\* _build_llm_messages with the missing file ending the loop instead of the
\* iteration (break in place of continue)
RECURSIVE _build_llm_messages_StopAtMissing(_, _)
_build_llm_messages_StopAtMissing(msgs, present) ==
    IF msgs = <<>> THEN <<>>
    ELSE LET message == Head(msgs)
             rest == _build_llm_messages_StopAtMissing(Tail(msgs), present)
             stripped == StrStrip(message.content)
             image_part == [type |-> "image_url", url |-> "data:image/png;base64"]
         IN  IF message.image_path # <<>>
             THEN IF message.image_path \notin present THEN <<>>
                  ELSE <<[role |-> message.role,
                          content |-> PartsContent(
                              IF stripped # <<>> /\ stripped # <<"[image]">>
                              THEN <<image_part, [type |-> "text", text |-> message.content]>>
                              ELSE <<image_part>>)]>> \o rest
             ELSE <<[role |-> message.role, content |-> TextContent(message.content)]>>
                  \o rest

\* _build_llm_messages; present holds the image files that exist: a message
\* whose file is missing raises FileNotFoundError inside the try and is skipped
RECURSIVE _build_llm_messages(_, _)
_build_llm_messages(msgs, present) ==
    IF msgs = <<>> THEN <<>>
    ELSE LET message == Head(msgs)
             rest == _build_llm_messages(Tail(msgs), present)
             stripped == StrStrip(message.content)
             image_part == [type |-> "image_url", url |-> "data:image/png;base64"]
         IN  IF message.image_path # <<>>
             THEN IF message.image_path \notin present THEN rest
                  ELSE <<[role |-> message.role,
                          content |-> PartsContent(
                              IF stripped # <<>> /\ stripped # <<"[image]">>
                              THEN <<image_part, [type |-> "text", text |-> message.content]>>
                              ELSE <<image_part>>)]>> \o rest
             ELSE <<[role |-> message.role, content |-> TextContent(message.content)]>>
                  \o rest

\* messages = await self._load_messages(...); llm_messages = await
\* self._build_llm_messages(messages); llm.stream_chat(llm_messages)
LoadAndBuild(ok, present) ==
    /\ InTurn /\ turn.pc = "load"
    /\ IF ok
       THEN /\ turn' = [turn EXCEPT
                   !.pc = "stream",
                   !.messages = _load_messages(db_msgs),
                   !.llm_messages = _build_llm_messages(_load_messages(db_msgs), present)]
            /\ LLMStart
            /\ UNCHANGED <<chan, sent, db_msgs>>
       ELSE /\ db_msgs' = RowsAfterTurnException(db_msgs, turn.user_message_id)
            /\ TurnFails("load")
            /\ UNCHANGED llm_vars
    /\ UNCHANGED <<db_title, pending, turns, title_calls, title_events, voice_enabled,
                   probe_vars>>

Streaming == InTurn /\ turn.pc = "stream"

\* the lines a backend sends while a turn is generating
TurnFragments == {<<"a">>, <<"<", "|", "c", "|", ">">>}

TurnOpenAILines ==
    {[pre |-> "empty", body |-> "", content |-> <<>>],
     [pre |-> "data", body |-> "[DONE]", content |-> <<>>],
     [pre |-> "data", body |-> "notdict", content |-> <<>>]}
    \cup [pre : {"data"}, body : {"delta"}, content : TurnFragments]

TurnLLMLines ==
    {[body |-> "badjson", has_response |-> FALSE, response |-> <<>>, done |-> FALSE]}
    \cup [body : {"chunk"}, has_response : {TRUE}, response : TurnFragments \cup {<<>>},
          done : BOOLEAN]

\* stream_chat running inside the turn
Generate(openai_lines, llm_lines) ==
    /\ Streaming
    /\ \/ \E ok \in BOOLEAN : PrimaryConnect(turn.llm_messages, ok)
       \/ \E line \in openai_lines : PrimaryRead(line, FALSE)
       \/ \E how \in {"error", "eof"} : PrimaryEnd(how)
       \/ \E ok \in BOOLEAN : FallbackConnect(turn.llm_messages, ok)
       \/ \E line \in llm_lines : FallbackRead(line, FALSE)
       \/ \E how \in {"error", "eof"} : FallbackEnd(how)
       \/ LLMResume
       \/ LLMReturn
    /\ UNCHANGED <<orch_vars, probe_vars>>

\* the body of "async for event in llm.stream_chat(llm_messages)"
HandleEvent ==
    /\ Streaming /\ llm_out # NoEvent
    /\ IF IsDone(llm_out)
       THEN /\ turn' = [turn EXCEPT !.pc = "after_stream", !.stream_done = TRUE]
            /\ LLMReset
            /\ UNCHANGED pending
       ELSE LET content_piece == clean_llm_text(llm_out.message.content)
            IN  /\ llm_out' = NoEvent
                /\ UNCHANGED <<llm_pc, llm_queue, yields, requests, failures>>
                /\ IF content_piece # <<>>
                   THEN /\ turn' = [turn EXCEPT !.buffer = Append(@, content_piece)]
                        /\ pending' = Chunk("assistant_delta", [content |-> content_piece])
                   ELSE UNCHANGED <<turn, pending>>
    /\ UNCHANGED <<db_title, db_msgs, chan, sent, turns, title_calls, title_events,
                   voice_enabled, probe_vars>>

\* the loop left as if exhausted when stream_chat raises
AfterGeneration_IgnoreError(generator) == "after_stream"

\* "async for event in llm.stream_chat(...)" has no try around it: the loop
\* ends when the generator is exhausted, an exception leaves the turn
AfterGeneration(generator) == IF generator = "returned" THEN "after_stream" ELSE "failed"

\* stream_chat is exhausted, or raises into the loop
StreamEnds ==
    /\ Streaming /\ llm_out = NoEvent /\ llm_pc \in {"returned", "raised"}
    /\ IF AfterGeneration(llm_pc) = "after_stream"
       THEN /\ turn' = [turn EXCEPT !.pc = "after_stream", !.stream_done = TRUE]
            /\ LLMReset
            /\ UNCHANGED <<chan, sent, db_msgs>>
       ELSE /\ db_msgs' = RowsAfterTurnException(db_msgs, turn.user_message_id)
            /\ TurnFails("generation")
            /\ UNCHANGED llm_vars
    /\ UNCHANGED <<db_title, pending, turns, title_calls, title_events, voice_enabled,
                   probe_vars>>

\* only the last piece of the buffer kept as the reply
full_content_LastPiece(buffer) ==
    IF buffer = <<>> THEN <<>> ELSE buffer[Len(buffer)]

\* full_content = "".join(buffer)
full_content(buffer) == Concat(buffer)

\* the reply persisted whether or not the buffer holds anything
ReplyIsEmpty_Never(pieces) == FALSE

\* "if buffer:" after the loop
ReplyIsEmpty(pieces) == pieces = <<>>

\* if buffer: assistant_message = await add_message(..., role="assistant", ...)
\* else: assistant_message_id = None
PersistAssistant(ok) ==
    /\ InTurn /\ turn.pc = "after_stream"
    /\ IF ReplyIsEmpty(turn.buffer)
       THEN /\ turn' = [turn EXCEPT !.pc = "synth", !.assistant_message_id = 0]
            /\ UNCHANGED <<db_title, db_msgs, chan, sent>>
       ELSE IF ok
       THEN /\ db_msgs' = add_message_rows(db_msgs, "assistant", full_content(turn.buffer), <<>>)
            /\ db_title' = add_message_title(db_title)
            /\ turn' = [turn EXCEPT !.pc = "title_check",
                                    !.assistant_message_id = NextId,
                                    !.inserted = Append(@, NextId)]
            /\ UNCHANGED <<chan, sent>>
       ELSE /\ db_msgs' = RowsAfterTurnException(db_msgs, turn.user_message_id)
            /\ TurnFails("add_assistant")
            /\ UNCHANGED db_title
    /\ UNCHANGED <<pending, turns, title_calls, title_events, voice_enabled,
                   llm_vars, probe_vars>>

\* _maybe_assign_conversation_title without the check of the prior messages
HasPriorAssistant_Never(prior_messages) == FALSE

\* all(...) in place of any(...)
HasPriorAssistant_All(prior_messages) ==
    /\ prior_messages # <<>>
    /\ \A i \in 1..Len(prior_messages) : prior_messages[i].role = "assistant"

\* any(msg["role"] == "assistant" for msg in prior_messages ...)
HasPriorAssistant(prior_messages) ==
    \E i \in 1..Len(prior_messages) : prior_messages[i].role = "assistant"

\* the eligibility check without the comparison of the title
TitleNotEligible_MissingOnly(title) == title = NoConv

\* conversation is None or conversation.title != "New Conversation"
TitleNotEligible(title) == title = NoConv \/ title # Placeholder

\* _maybe_assign_conversation_title up to the call of get_conversation_title
TitleCheck(ok) ==
    /\ InTurn /\ turn.pc = "title_check"
    /\ IF turn.text = <<>> \/ full_content(turn.buffer) = <<>>
       THEN /\ turn' = [turn EXCEPT !.pc = "synth"]
            /\ UNCHANGED <<chan, sent, db_msgs>>
       ELSE IF HasPriorAssistant(turn.messages)
       THEN /\ turn' = [turn EXCEPT !.pc = "synth"]
            /\ UNCHANGED <<chan, sent, db_msgs>>
       ELSE IF ~ok
       THEN /\ db_msgs' = RowsAfterTurnException(db_msgs, turn.user_message_id)
            /\ TurnFails("title_check")
       ELSE /\ turn' = [turn EXCEPT
                   !.pc = IF TitleNotEligible(db_title) THEN "synth" ELSE "title_infer",
                   !.checked_title = db_title]
            /\ UNCHANGED <<chan, sent, db_msgs>>
    /\ UNCHANGED <<db_title, pending, turns, title_calls, title_events, voice_enabled,
                   llm_vars, probe_vars>>

InferredTitle == "Weather Chat"
TitleOutcomes == {None, InferredTitle, "raise"}

\* get_conversation_title(user_message, assistant_message): nothing is asked of
\* the backend when either string is empty once stripped
get_conversation_title(user_message, assistant_message, backend) ==
    IF StrStrip(user_message) = <<>> \/ StrStrip(assistant_message) = <<>>
    THEN None ELSE backend

\* proposal = await get_conversation_title(user_message.content, assistant_text)
TitleInfer(backend) ==
    /\ InTurn /\ turn.pc = "title_infer"
    /\ title_calls' = title_calls + 1
    /\ LET proposal == get_conversation_title(turn.text, full_content(turn.buffer), backend)
       IN  IF proposal = "raise"
           THEN /\ db_msgs' = RowsAfterTurnException(db_msgs, turn.user_message_id)
                /\ turn' = [turn EXCEPT !.pc = "failed", !.fail_at = "title",
                                        !.title_calls = @ + 1]
                /\ chan' = "crashed"
                /\ sent' = SentAfterTurnException(sent, "title")
           ELSE /\ turn' = [turn EXCEPT
                       !.pc = IF proposal = None THEN "synth" ELSE "title_rename",
                       !.proposal = proposal,
                       !.title_calls = @ + 1]
                /\ UNCHANGED <<chan, sent, db_msgs>>
    /\ UNCHANGED <<db_title, pending, turns, title_events, voice_enabled,
                   llm_vars, probe_vars>>

\* updated = await rename_conversation(conversation_id, proposal)
\* return proposal if updated else None
TitleRename(ok) ==
    /\ InTurn /\ turn.pc = "title_rename"
    /\ IF ok
       THEN /\ db_title' = IF db_title = NoConv THEN NoConv ELSE turn.proposal
            /\ turn' = [turn EXCEPT
                   !.pc = "synth",
                   !.new_title = IF db_title = NoConv THEN None ELSE turn.proposal,
                   !.renames = @ + (IF db_title = NoConv THEN 0 ELSE 1)]
            /\ UNCHANGED <<chan, sent, db_msgs>>
       ELSE /\ db_msgs' = RowsAfterTurnException(db_msgs, turn.user_message_id)
            /\ TurnFails("rename")
            /\ UNCHANGED db_title
    /\ UNCHANGED <<pending, turns, title_calls, title_events, voice_enabled,
                   llm_vars, probe_vars>>

\* audio_path = await speech_service.synthesize_speech("".join(buffer) or "")
Synthesize(engine) ==
    /\ InTurn /\ turn.pc = "synth"
    /\ LET r == synthesize_speech(full_content(turn.buffer), voice_enabled, engine)
           error == IF r.attempted /\ r.result # "path" THEN engine ELSE None
       IN  IF r.result = "raise"
           THEN /\ db_msgs' = RowsAfterTurnException(db_msgs, turn.user_message_id)
                /\ turn' = [turn EXCEPT !.pc = "failed", !.fail_at = "synth",
                                        !.synth_calls = @ + 1,
                                        !.synth_text = full_content(turn.buffer),
                                        !.synth_error = error]
                /\ chan' = "crashed"
                /\ sent' = SentAfterTurnException(sent, "synth")
           ELSE /\ turn' = [turn EXCEPT
                       !.synth = r.result,
                       !.synth_calls = @ + 1,
                       !.synth_text = full_content(turn.buffer),
                       !.synth_error = error,
                       !.pc = IF r.result = "path" /\ turn.assistant_message_id # 0
                              THEN "attach_synth" ELSE "emit_title"]
                /\ UNCHANGED <<chan, sent, db_msgs>>
    /\ UNCHANGED <<db_title, pending, turns, title_calls, title_events, voice_enabled,
                   llm_vars, probe_vars>>

\* await update_message_audio_path(assistant_message_id, normalized_path)
\* yield StreamingChunk(type="assistant_audio", ...)
AttachSynth(ok) ==
    /\ InTurn /\ turn.pc = "attach_synth"
    /\ LET normalized_path == IF IsRelativeTo(SynthesizedFile, MediaRoot)
                              THEN RelativeTo(SynthesizedFile, MediaRoot)
                              ELSE SynthesizedFile
       IN  IF ok
           THEN /\ db_msgs' = update_message_audio_path(db_msgs, turn.assistant_message_id,
                                                        normalized_path)
                /\ pending' = Chunk("assistant_audio", [audio_path |-> normalized_path])
                /\ turn' = [turn EXCEPT !.pc = "emit_title"]
                /\ UNCHANGED <<chan, sent>>
           ELSE /\ db_msgs' = RowsAfterTurnException(db_msgs, turn.user_message_id)
                /\ TurnFails("attach_synth")
                /\ UNCHANGED pending
    /\ UNCHANGED <<db_title, turns, title_calls, title_events, voice_enabled,
                   llm_vars, probe_vars>>

\* if new_title is not None: yield StreamingChunk(type="conversation_title", ...)
EmitTitle ==
    /\ InTurn /\ turn.pc = "emit_title"
    /\ pending' = IF turn.new_title # None
                  THEN Chunk("conversation_title",
                             [title |-> turn.new_title, conversation_id |-> ConversationId])
                  ELSE NoChunk
    /\ turn' = [turn EXCEPT !.pc = "finish"]
    /\ UNCHANGED <<db_title, db_msgs, chan, sent, turns, title_calls, title_events,
                   voice_enabled, llm_vars, probe_vars>>

\* the coordinator's generator is exhausted: chat_socket waits for the next request
Finish ==
    /\ InTurn /\ turn.pc = "finish"
    /\ turn' = [turn EXCEPT !.pc = "done"]
    /\ chan' = IF chan = "closing" THEN "disconnected" ELSE "idle"
    /\ UNCHANGED <<db_title, db_msgs, sent, pending, turns, title_calls, title_events,
                   voice_enabled, llm_vars, probe_vars>>

\* PATCH /api/conversations/{id}: rename_conversation by the client
ClientTitles == {Placeholder, "Trip Notes"}

ClientRename(title) ==
    /\ db_title # NoConv /\ db_title # title
    /\ db_title' = title
    /\ UNCHANGED <<db_msgs, chan, sent, pending, turn, turns, title_calls, title_events,
                   voice_enabled, llm_vars, probe_vars>>

Init ==
    /\ db_title = NoConv
    /\ db_msgs = <<>>
    /\ chan = "none"
    /\ sent = <<>>
    /\ pending = NoChunk
    /\ turn = IdleTurn
    /\ turns = 0
    /\ title_calls = 0
    /\ title_events = 0
    /\ voice_enabled \in BOOLEAN
    /\ LLMIdle
    /\ wire = <<>>
    /\ received = <<>>
    /\ payload_in = <<>>
    /\ naming = IdleNaming
    /\ media = IdleMedia
    /\ vad = IdleVad
    /\ unit = IdleUnit
    /\ pair = IdlePair

Next ==
    \/ Accept
    \/ \E payload \in Payloads : Receive(payload, MaxRequests)
    \/ Send
    \/ Disconnect
    \/ \E ok \in BOOLEAN, outcome \in Texts : Transcribe(ok, outcome)
    \/ \E ok \in BOOLEAN : AddUser(ok)
    \/ \E ok \in BOOLEAN : AttachUserAudio(ok)
    \/ \E ok \in BOOLEAN, present \in {{}, ImageFiles} : LoadAndBuild(ok, present)
    \/ Generate(TurnOpenAILines, TurnLLMLines)
    \/ HandleEvent
    \/ StreamEnds
    \/ \E ok \in BOOLEAN : PersistAssistant(ok)
    \/ \E ok \in BOOLEAN : TitleCheck(ok)
    \/ \E backend \in TitleOutcomes : TitleInfer(backend)
    \/ \E ok \in BOOLEAN : TitleRename(ok)
    \/ \E engine \in EngineOutcomes : Synthesize(engine)
    \/ \E ok \in BOOLEAN : AttachSynth(ok)
    \/ EmitTitle
    \/ Finish
    \/ Finalize
    \/ \E title \in ClientTitles : ClientRename(title)

Spec == Init /\ [][Next]_vars

(***************************************************************************)
(* SpecConv: several text turns, one after another, on one conversation    *)
(***************************************************************************)
ConvPayloads ==
    [conversation_id : {ConversationId}, type : {"text"}, text : Texts,
     image_path : {<<>>}, audio_path : {<<>>}]
    \cup {payload \in Payloads : PayloadError(payload) # None}

ConvOpenAILines ==
    {[pre |-> "data", body |-> "[DONE]", content |-> <<>>],
     [pre |-> "data", body |-> "notdict", content |-> <<>>],
     [pre |-> "data", body |-> "delta", content |-> <<"a">>]}

ConvLLMLines ==
    {[body |-> "badjson", has_response |-> FALSE, response |-> <<>>, done |-> FALSE]}
    \cup [body : {"chunk"}, has_response : {TRUE}, response : {<<"a">>}, done : BOOLEAN]

NextConv ==
    \/ Accept
    \/ \E payload \in ConvPayloads : Receive(payload, MaxTurns)
    \/ Send
    \/ Disconnect
    \/ \E ok \in BOOLEAN : AddUser(ok)
    \/ \E ok \in BOOLEAN : LoadAndBuild(ok, ImageFiles)
    \/ Generate(ConvOpenAILines, ConvLLMLines)
    \/ HandleEvent
    \/ StreamEnds
    \/ \E ok \in BOOLEAN : PersistAssistant(ok)
    \/ \E ok \in BOOLEAN : TitleCheck(ok)
    \/ \E backend \in TitleOutcomes : TitleInfer(backend)
    \/ \E ok \in BOOLEAN : TitleRename(ok)
    \/ \E engine \in EngineOutcomes : Synthesize(engine)
    \/ \E ok \in BOOLEAN : AttachSynth(ok)
    \/ EmitTitle
    \/ Finish
    \/ Finalize
    \/ ClientRename("Trip Notes")

SpecConv == Init /\ [][NextConv]_vars

(***************************************************************************)
(* SpecClose: text turns, with the event loop running the finalizers of    *)
(* abandoned generators (asyncio's asynchronous generator hooks)           *)
(***************************************************************************)
NextClose ==
    \/ Accept
    \/ \E payload \in ConvPayloads : Receive(payload, MaxRequests)
    \/ Send
    \/ Disconnect
    \/ PeerClose
    \/ SendFails
    \/ \E ok \in BOOLEAN : AddUser(ok)
    \/ \E ok \in BOOLEAN : LoadAndBuild(ok, ImageFiles)
    \/ Generate(TurnOpenAILines, TurnLLMLines)
    \/ HandleEvent
    \/ StreamEnds
    \/ \E ok \in BOOLEAN : PersistAssistant(ok)
    \/ \E ok \in BOOLEAN : TitleCheck(ok)
    \/ \E backend \in TitleOutcomes : TitleInfer(backend)
    \/ \E ok \in BOOLEAN : TitleRename(ok)
    \/ \E engine \in EngineOutcomes : Synthesize(engine)
    \/ \E ok \in BOOLEAN : AttachSynth(ok)
    \/ EmitTitle
    \/ Finish
    \/ Finalize

SpecClose == Init /\ [][NextClose]_vars /\ WF_vars(Finalize)

(***************************************************************************)
(* SpecVoice: handle_voice_message called with any pair of arguments       *)
(***************************************************************************)
VoiceAudioPaths == {MediaRoot \o <<"/", "in.wav">>, <<"C:", "\\", "in.wav">>}

\* stored_audio_path: absent (<<>>), relative, with backslashes, under /media/
VoiceStoredPaths ==
    {<<>>, <<"in.wav">>, <<"audio", "\\", "in.wav">>, <<"/", "media", "/", "in.wav">>}

\* coordinator.handle_voice_message(conversation_id, audio_path,
\* stored_audio_path=...), its chunks forwarded to the channel
VoiceCall(audio_path, stored_audio_path, limit) ==
    /\ chan = "idle" /\ turns < limit
    /\ ~Abandoned
    /\ turns' = turns + 1
    /\ pending' = NoChunk
    /\ sent' = <<>>
    /\ chan' = "turn"
    /\ LLMReset
    /\ turn' = [IdleTurn EXCEPT !.pc = "transcribe", !.kind = "audio",
                                !.audio_path = audio_path,
                                !.user_audio_path = stored_audio_path]
    /\ UNCHANGED <<db_title, db_msgs, title_calls, title_events, voice_enabled,
                   probe_vars>>

NextVoice ==
    \/ Accept
    \/ \E audio_path \in VoiceAudioPaths, stored_audio_path \in VoiceStoredPaths :
          VoiceCall(audio_path, stored_audio_path, MaxRequests)
    \/ Send
    \/ Disconnect
    \/ \E ok \in BOOLEAN, outcome \in Texts : Transcribe(ok, outcome)
    \/ \E ok \in BOOLEAN : AddUser(ok)
    \/ \E ok \in BOOLEAN : AttachUserAudio(ok)
    \/ \E ok \in BOOLEAN : LoadAndBuild(ok, ImageFiles)
    \/ Generate(ConvOpenAILines, ConvLLMLines)
    \/ HandleEvent
    \/ StreamEnds
    \/ \E ok \in BOOLEAN : PersistAssistant(ok)
    \/ \E ok \in BOOLEAN : TitleCheck(ok)
    \/ \E backend \in TitleOutcomes : TitleInfer(backend)
    \/ \E ok \in BOOLEAN : TitleRename(ok)
    \/ \E engine \in EngineOutcomes : Synthesize(engine)
    \/ \E ok \in BOOLEAN : AttachSynth(ok)
    \/ EmitTitle
    \/ Finish
    \/ Finalize
    \/ ClientRename("Trip Notes")

SpecVoice == Init /\ [][NextVoice]_vars

(***************************************************************************)
(* SpecPaths: one file reference of a request, from chat_socket to the row *)
(* of the message and to the file that is opened for it                    *)
(***************************************************************************)
FileName == "pic.png"

RefsRelative ==
    {<<FileName>>, <<"sub", "/", FileName>>, <<"..", "/", FileName>>,
     <<"sub", "/", "..", "/", FileName>>,
     <<"..", "/", "..", "/", "etc", "/", FileName>>,
     <<"sub", "\\", FileName>>, <<"..", "\\", FileName>>}

RefsAbsolute ==
    {MediaRoot \o <<"/", FileName>>, MediaRoot \o <<"/", "sub", "/", FileName>>,
     MediaRoot \o <<"/", "..", "/", FileName>>,
     <<"/", "etc", "/", FileName>>, <<"/", "srv", "/", FileName>>,
     <<"/", "media", "/", FileName>>, <<"/", "media", "/", "sub", "/", FileName>>,
     <<"/", "media", "/", "..", "/", FileName>>,
     <<"/", "etc", "/", "..", "/", "srv", "/", "media", "/", FileName>>}

FileRefs == RefsRelative \cup RefsAbsolute

\* Path(a) / b
JoinPath(a, b) == IF IsAbsolute(b) THEN b ELSE a \o <<"/">> \o b

\* StreamingCoordinator._resolve_image_path
_resolve_image_path(image_path) ==
    LET replaced == BackslashToSlash(image_path)
        normalized == IF StartsWith(replaced, <<"/", "media", "/">>)
                      THEN Tail_From(replaced, 4) ELSE replaced
    IN  JoinPath(MediaRoot, normalized)

RECURSIVE Resolved(_, _)
\* the directory entries the file system follows for a path: ".." leaves the
\* directory reached so far
Resolved(p, stack) ==
    IF p = <<>> THEN stack
    ELSE IF Head(p) = "/" THEN Resolved(Tail(p), stack)
    ELSE IF Head(p) = ".."
         THEN Resolved(Tail(p), IF stack = <<>> THEN <<>>
                                ELSE SubSeq(stack, 1, Len(stack) - 1))
    ELSE Resolved(Tail(p), Append(stack, Head(p)))

\* the file an absolute path names lies under the media root
UnderMediaRoot(p) ==
    LET root == Resolved(MediaRoot, <<>>)
        file == Resolved(p, <<>>)
    IN  Len(file) > Len(root) /\ SubSeq(file, 1, Len(root)) = root

InitPaths ==
    /\ OrchIdle
    /\ LLMIdle
    /\ wire = <<>>
    /\ received = <<>>
    /\ payload_in = <<>>
    /\ naming = IdleNaming
    /\ media = IdleMedia
    /\ vad = IdleVad
    /\ unit = IdleUnit
    /\ pair = IdlePair

\* chat_socket: image_path / stored_image_path of a text request, audio_path /
\* stored_audio_path of an audio request
PathRequest(kind, ref) ==
    /\ media.pc = "idle"
    /\ media' = [IdleMedia EXCEPT
           !.pc = IF kind = "audio" THEN "transcribe" ELSE "persist",
           !.kind = kind, !.ref = ref,
           !.path = AbsoluteRef(ref),
           !.stored = IF kind = "audio" THEN BackslashToSlash(StoredRef(ref))
                      ELSE StoredRef(ref)]
    /\ UNCHANGED <<orch_vars, llm_vars, wire, received, payload_in, naming, vad, unit, pair>>

\* speech_service.transcribe_audio(audio_path) opens the file
PathTranscribe ==
    /\ media.pc = "transcribe"
    /\ media' = [media EXCEPT !.pc = "persist", !.read = media.path]
    /\ UNCHANGED <<orch_vars, llm_vars, wire, received, payload_in, naming, vad, unit, pair>>

\* add_message(image_path=stored_image_path or str(image_path)) /
\* update_message_audio_path(user_message.id, user_audio_path)
PathPersist ==
    /\ media.pc = "persist"
    /\ media' = [media EXCEPT
           !.pc = IF media.kind = "image" THEN "inline" ELSE "done",
           !.row = _normalize_media_path(IF media.stored # <<>> THEN media.stored
                                         ELSE media.path)]
    /\ UNCHANGED <<orch_vars, llm_vars, wire, received, payload_in, naming, vad, unit, pair>>

\* _build_llm_messages: _image_path_to_data_uri(_resolve_image_path(image_path))
\* reads the file when it exists
PathInline(present) ==
    /\ media.pc = "inline"
    /\ media' = [media EXCEPT
           !.pc = IF present THEN "done" ELSE "skipped",
           !.read = IF present THEN _resolve_image_path(media.row) ELSE <<>>]
    /\ UNCHANGED <<orch_vars, llm_vars, wire, received, payload_in, naming, vad, unit, pair>>

NextPaths ==
    \/ \E kind \in {"image", "audio"}, ref \in FileRefs : PathRequest(kind, ref)
    \/ PathTranscribe
    \/ PathPersist
    \/ \E present \in BOOLEAN : PathInline(present)

SpecPaths == InitPaths /\ [][NextPaths]_vars

(***************************************************************************)
(* SpecVad: VoiceActivityDetector.trim_silence (services/vad/__init__.py)  *)
(*                                                                         *)
(* The configuration is scaled down to frames of one 16-bit sample, and a  *)
(* byte is 0 or 1.  The classifier is webrtcvad: a fixed function of the   *)
(* bytes of a frame, which rejects a frame whose length is none it handles. *)
(***************************************************************************)
SampleRate == 1000
FrameDurationMs == 1

\* int(sample_rate * (frame_duration_ms / 1000.0) * 2)
_frame_bytes == (SampleRate * FrameDurationMs * 2) \div 1000

Bytes == {0, 1}

RECURSIVE _frame_generator(_)
\* for i in range(0, len(pcm16), frame_bytes): yield pcm16[i : i + frame_bytes]
_frame_generator(pcm16) ==
    IF pcm16 = <<>> THEN <<>>
    ELSE IF Len(pcm16) <= _frame_bytes THEN <<pcm16>>
    ELSE <<SubSeq(pcm16, 1, _frame_bytes)>>
         \o _frame_generator(Tail_From(pcm16, _frame_bytes + 1))

\* the 0-based indices of the frames flagged as speech
SpeechIndices(speech_flags) ==
    {i \in 0..(Len(speech_flags) - 1) : speech_flags[i + 1] = "speech"}

Max(S) == CHOOSE x \in S : \A y \in S : y <= x

\* trim_silence that starts one byte into the first speech frame
start_byte_MidFrame(first_idx) == first_idx * _frame_bytes + 1

\* start_byte = first_idx * self._frame_bytes
start_byte(first_idx) == first_idx * _frame_bytes

\* trim_silence that ends where the last speech frame begins
end_byte_Exclusive(length, last_idx) == Min({length, last_idx * _frame_bytes})

\* end_byte = min(len(pcm16), (last_idx + 1) * self._frame_bytes)
end_byte(length, last_idx) == Min({length, (last_idx + 1) * _frame_bytes})

\* trim_silence that hands back a buffer without speech as it is
trim_silence_KeepSilence(pcm16, speech_flags) ==
    IF speech_flags = <<>> THEN pcm16
    ELSE IF SpeechIndices(speech_flags) = {} THEN pcm16
    ELSE SubSeq(pcm16, start_byte(Min(SpeechIndices(speech_flags))) + 1,
                end_byte(Len(pcm16), Max(SpeechIndices(speech_flags))))

\* trim_silence, given the flags the classifier returned for the frames
trim_silence(pcm16, speech_flags) ==
    IF speech_flags = <<>> THEN pcm16
    ELSE IF SpeechIndices(speech_flags) = {} THEN <<>>
    ELSE SubSeq(pcm16, start_byte(Min(SpeechIndices(speech_flags))) + 1,
                end_byte(Len(pcm16), Max(SpeechIndices(speech_flags))))

RECURSIVE Buffers(_)
\* the PCM buffers of at most n bytes
Buffers(n) ==
    IF n = 0 THEN {<<>>}
    ELSE Buffers(n - 1)
         \cup {Append(b, x) : b \in {c \in Buffers(n - 1) : Len(c) = n - 1}, x \in Bytes}

\* what self._vad.is_speech can do with a frame: a whole frame is flagged; a
\* shorter one is flagged when its length is one the classifier handles and
\* rejected with an exception otherwise
FrameOutcomes(frame) ==
    IF Len(frame) = _frame_bytes THEN {"speech", "silence"}
    ELSE {"speech", "silence", "raise"}

\* the outcomes of a fixed function of the bytes of a frame: equal frames get
\* equal outcomes, and a frame flagged before (known) gets the same flag again
Classifications(frames, known) ==
    {f \in [1..Len(frames) -> {"speech", "silence", "raise"}] :
        /\ \A i \in 1..Len(frames) : f[i] \in FrameOutcomes(frames[i])
        /\ \A i, j \in 1..Len(frames) : frames[i] = frames[j] => f[i] = f[j]
        /\ \A i \in 1..Len(frames) : \A k \in DOMAIN known :
              frames[i] = known[k].frame => f[i] = known[k].flag}

InitVad ==
    /\ OrchIdle
    /\ LLMIdle
    /\ wire = <<>>
    /\ received = <<>>
    /\ payload_in = <<>>
    /\ naming = IdleNaming
    /\ media = IdleMedia
    /\ vad = IdleVad
    /\ unit = IdleUnit
    /\ pair = IdlePair

\* trim_silence(pcm16) up to "if not frames: return pcm16"
VadCall(pcm16) ==
    /\ vad.pc = "idle"
    /\ LET frames == _frame_generator(pcm16)
       IN  vad' = [IdleVad EXCEPT
               !.pcm16 = pcm16, !.frames = frames,
               !.result = IF frames = <<>> THEN pcm16 ELSE <<>>,
               !.pc = IF frames = <<>> THEN "done" ELSE "classify"]
    /\ UNCHANGED <<orch_vars, llm_vars, wire, received, payload_in, naming, media, unit, pair>>

\* speech_flags = [is_speech(frame) for frame in frames] and the rest of
\* trim_silence
VadClassify(flags) ==
    /\ vad.pc = "classify"
    /\ flags \in Classifications(vad.frames, <<>>)
    /\ LET raised == \E i \in 1..Len(flags) : flags[i] = "raise"
           upto == IF raised
                   THEN Min({i \in 1..Len(flags) : flags[i] = "raise"})
                   ELSE Len(flags)
       IN  vad' = [vad EXCEPT
               !.pc = IF raised THEN "raised" ELSE "done",
               !.classified = SubSeq(vad.frames, 1, upto),
               !.speech_flags = IF raised THEN <<>> ELSE flags,
               !.result = IF raised THEN <<>> ELSE trim_silence(vad.pcm16, flags)]
    /\ UNCHANGED <<orch_vars, llm_vars, wire, received, payload_in, naming, media, unit, pair>>

\* what the first call learned of the classifier
KnownFlags ==
    [k \in 1..Len(vad.speech_flags) |->
        [frame |-> vad.frames[k], flag |-> vad.speech_flags[k]]]

\* trim_silence(trim_silence(pcm16)) with the same classifier
VadAgain(flags) ==
    /\ vad.pc = "done"
    /\ LET frames == _frame_generator(vad.result)
       IN  /\ flags \in Classifications(frames, KnownFlags)
           /\ LET raised == \E i \in 1..Len(flags) : flags[i] = "raise"
              IN  vad' = [vad EXCEPT
                      !.pc = IF raised THEN "raised_again" ELSE "done_again",
                      !.again = IF raised THEN <<>> ELSE trim_silence(vad.result, flags)]
    /\ UNCHANGED <<orch_vars, llm_vars, wire, received, payload_in, naming, media, unit, pair>>

NextVad ==
    \/ \E pcm16 \in Buffers(MaxBytes) : VadCall(pcm16)
    \/ \E flags \in [1..Len(vad.frames) -> {"speech", "silence", "raise"}] :
          VadClassify(flags)
    \/ \E flags \in [1..Len(_frame_generator(vad.result)) ->
                       {"speech", "silence", "raise"}] : VadAgain(flags)

SpecVad == InitVad /\ [][NextVad]_vars

(***************************************************************************)
(* SpecFrag: one text turn against a backend whose fragments carry control *)
(* tokens, whole, split over two fragments, or holding a line break        *)
(***************************************************************************)
FragPayloads ==
    {[conversation_id |-> ConversationId, type |-> "text", text |-> <<"h", "i">>,
      image_path |-> <<>>, audio_path |-> <<>>]}

FragFragments ==
    {<<"a">>, <<"<", "|", "c", "|", ">">>, <<"<", "|", "c">>, <<"|", ">">>,
     <<"<", "|", "c", NL, "|", ">">>}

FragOpenAILines ==
    {[pre |-> "data", body |-> "[DONE]", content |-> <<>>]}
    \cup [pre : {"data"}, body : {"delta"}, content : FragFragments]

NextFrag ==
    \/ Accept
    \/ \E payload \in FragPayloads : Receive(payload, MaxRequests)
    \/ Send
    \/ Disconnect
    \/ \E ok \in BOOLEAN : AddUser(ok)
    \/ \E ok \in BOOLEAN : LoadAndBuild(ok, ImageFiles)
    \/ Generate(FragOpenAILines, ConvLLMLines)
    \/ HandleEvent
    \/ StreamEnds
    \/ \E ok \in BOOLEAN : PersistAssistant(ok)
    \/ \E ok \in BOOLEAN : TitleCheck(ok)
    \/ \E backend \in TitleOutcomes : TitleInfer(backend)
    \/ \E ok \in BOOLEAN : TitleRename(ok)
    \/ \E engine \in EngineOutcomes : Synthesize(engine)
    \/ \E ok \in BOOLEAN : AttachSynth(ok)
    \/ EmitTitle
    \/ Finish
    \/ Finalize

SpecFrag == Init /\ [][NextFrag]_vars

(***************************************************************************)
(* SpecBuild: one text turn on a conversation that already holds rows,     *)
(* some of them naming an image file that may be missing on disk           *)
(***************************************************************************)
HistoryKinds ==
    {[role |-> "user", content |-> <<"h", "i">>, image_path |-> <<>>],
     [role |-> "assistant", content |-> <<"a">>, image_path |-> <<>>],
     [role |-> "user", content |-> <<"[image]">>, image_path |-> <<"pic.png">>],
     [role |-> "user", content |-> <<"b">>, image_path |-> <<"two.png">>]}

\* an assistant row is only ever added after the user row of its turn
Histories ==
    {h \in UNION {[1..n -> HistoryKinds] : n \in 0..MaxHistory} :
        \A i \in 1..Len(h) :
            h[i].role = "assistant" => i > 1 /\ h[i - 1].role = "user"}

StoredHistory(h) ==
    [i \in 1..Len(h) |-> Row(i, h[i].role, h[i].content, <<>>, h[i].image_path)]

InitBuild ==
    /\ \E h \in Histories :
          /\ db_msgs = StoredHistory(h)
          /\ db_title = IF h = <<>> THEN NoConv ELSE Placeholder
    /\ chan = "none"
    /\ sent = <<>>
    /\ pending = NoChunk
    /\ turn = IdleTurn
    /\ turns = 0
    /\ title_calls = 0
    /\ title_events = 0
    /\ voice_enabled \in BOOLEAN
    /\ LLMIdle
    /\ wire = <<>>
    /\ received = <<>>
    /\ payload_in = <<>>
    /\ naming = IdleNaming
    /\ media = IdleMedia
    /\ vad = IdleVad
    /\ unit = IdleUnit
    /\ pair = IdlePair

NextBuild ==
    \/ Accept
    \/ \E payload \in FragPayloads : Receive(payload, MaxRequests)
    \/ Send
    \/ Disconnect
    \/ \E ok \in BOOLEAN : AddUser(ok)
    \/ \E ok \in BOOLEAN, present \in SUBSET ImageFiles : LoadAndBuild(ok, present)
    \/ Generate(ConvOpenAILines, ConvLLMLines)
    \/ HandleEvent
    \/ StreamEnds
    \/ \E ok \in BOOLEAN : PersistAssistant(ok)
    \/ \E ok \in BOOLEAN : TitleCheck(ok)
    \/ \E backend \in TitleOutcomes : TitleInfer(backend)
    \/ \E ok \in BOOLEAN : TitleRename(ok)
    \/ \E engine \in EngineOutcomes : Synthesize(engine)
    \/ \E ok \in BOOLEAN : AttachSynth(ok)
    \/ EmitTitle
    \/ Finish
    \/ Finalize

SpecBuild == InitBuild /\ [][NextBuild]_vars

(***************************************************************************)
(* SpecOrder: the first text turn of a connection, with the lines its      *)
(* generation read from the backend kept in wire, in the order they were   *)
(* read                                                                    *)
(***************************************************************************)
OrderFragments == {<<"a">>, <<"b">>, <<"<", "|", "c", "|", ">">>}

OrderOpenAILines ==
    {[pre |-> "data", body |-> "[DONE]", content |-> <<>>]}
    \cup [pre : {"data"}, body : {"delta"}, content : OrderFragments]

OrderLLMLines ==
    [body : {"chunk"}, has_response : {TRUE}, response : {<<"a">>, <<"b">>},
     done : BOOLEAN]

\* stream_chat running inside the turn, every line read appended to wire
GenerateOnWire(openai_lines, llm_lines) ==
    /\ Streaming
    /\ \/ \E ok \in BOOLEAN : PrimaryConnect(turn.llm_messages, ok) /\ UNCHANGED wire
       \/ \E line \in openai_lines : PrimaryRead(line, TRUE)
       \/ \E how \in {"error", "eof"} : PrimaryEnd(how) /\ UNCHANGED wire
       \/ \E ok \in BOOLEAN : FallbackConnect(turn.llm_messages, ok) /\ UNCHANGED wire
       \/ \E line \in llm_lines : FallbackRead(line, TRUE)
       \/ \E how \in {"error", "eof"} : FallbackEnd(how) /\ UNCHANGED wire
       \/ LLMResume /\ UNCHANGED wire
       \/ LLMReturn /\ UNCHANGED wire
    /\ UNCHANGED <<orch_vars, received, payload_in, naming, media, vad, unit, pair>>

NextOrder ==
    \/ Accept
    \/ \E payload \in FragPayloads : Receive(payload, 1)
    \/ Send
    \/ Disconnect
    \/ \E ok \in BOOLEAN : AddUser(ok)
    \/ \E ok \in BOOLEAN : LoadAndBuild(ok, ImageFiles)
    \/ GenerateOnWire(OrderOpenAILines, OrderLLMLines)
    \/ HandleEvent
    \/ StreamEnds
    \/ \E ok \in BOOLEAN : PersistAssistant(ok)
    \/ \E ok \in BOOLEAN : TitleCheck(ok)
    \/ \E backend \in TitleOutcomes : TitleInfer(backend)
    \/ \E ok \in BOOLEAN : TitleRename(ok)
    \/ \E engine \in EngineOutcomes : Synthesize(engine)
    \/ \E ok \in BOOLEAN : AttachSynth(ok)
    \/ EmitTitle
    \/ Finish
    \/ Finalize

SpecOrder == Init /\ [][NextOrder]_vars

(***************************************************************************)
(* SpecSession: units of work of DatabaseManager.session, one after the    *)
(* other on the same database (storage/database.py)                        *)
(*                                                                         *)
(* store is what the database holds, changes what the body of the unit has *)
(* added to its session, tx the state of the session's transaction.  The   *)
(* body and the commit end well, raise an Exception, or are cancelled      *)
(* (asyncio.CancelledError, which "except Exception" does not catch).      *)
(***************************************************************************)
Changes == {"x", "y"}
UnitOutcomes == {"ok", "Exception", "CancelledError"}

\* the raise at the end of the except clause leaving without the finally clause
AfterRollback_NoFinally == "ended"

\* finally: await session.close(), on the way out of the except clause too
AfterRollback == "close"

\* except Exception: await session.rollback(); any other exception passes the
\* clause by and meets the finally clause only
AfterError(error) == IF error = "Exception" THEN "rollback" ELSE "close"

InitSession ==
    /\ OrchIdle
    /\ LLMIdle
    /\ wire = <<>>
    /\ received = <<>>
    /\ payload_in = <<>>
    /\ naming = IdleNaming
    /\ media = IdleMedia
    /\ vad = IdleVad
    /\ unit = IdleUnit
    /\ pair = IdlePair

\* async with db.session() as session: the manager has a session maker or not
SessionEnter(ready) ==
    /\ unit.pc \in {"idle", "ended"} /\ unit.count < MaxUnits
    /\ unit' = IF ready
               THEN [unit EXCEPT !.pc = "body", !.made = TRUE, !.session_open = TRUE,
                                 !.tx = "active", !.changes = <<>>,
                                 !.before = unit.store, !.error = None,
                                 !.rollbacks = 0,
                                 !.count = @ + 1, !.opened = @ + 1]
               ELSE [unit EXCEPT !.pc = "ended", !.made = FALSE, !.tx = "none",
                                 !.changes = <<>>, !.before = unit.store,
                                 !.error = "RuntimeError", !.rollbacks = 0,
                                 !.count = @ + 1]
    /\ UNCHANGED <<orch_vars, llm_vars, wire, received, payload_in, naming, media, vad, pair>>

\* the body adds a row to the session (session.add, session.flush)
BodyChange(change) ==
    /\ unit.pc = "body" /\ Len(unit.changes) < MaxChanges
    /\ unit' = [unit EXCEPT !.changes = Append(@, change)]
    /\ UNCHANGED <<orch_vars, llm_vars, wire, received, payload_in, naming, media, vad, pair>>

\* yield session: the body of the with statement ends
BodyEnds(outcome) ==
    /\ unit.pc = "body"
    /\ unit' = IF outcome = "ok"
               THEN [unit EXCEPT !.pc = "commit"]
               ELSE [unit EXCEPT !.pc = AfterError(outcome), !.error = outcome]
    /\ UNCHANGED <<orch_vars, llm_vars, wire, received, payload_in, naming, media, vad, pair>>

\* await session.commit()
SessionCommit(outcome) ==
    /\ unit.pc = "commit"
    /\ unit' = IF outcome = "ok"
               THEN [unit EXCEPT !.pc = "close", !.tx = "committed",
                                 !.store = @ \o unit.changes]
               ELSE [unit EXCEPT !.pc = AfterError(outcome), !.error = outcome]
    /\ UNCHANGED <<orch_vars, llm_vars, wire, received, payload_in, naming, media, vad, pair>>

\* await session.rollback(); raise
SessionRollback ==
    /\ unit.pc = "rollback"
    /\ unit' = [unit EXCEPT !.pc = AfterRollback, !.tx = "rolled_back",
                            !.rollbacks = @ + 1]
    /\ UNCHANGED <<orch_vars, llm_vars, wire, received, payload_in, naming, media, vad, pair>>

\* finally: await session.close(); a transaction still in progress is rolled
\* back by it
SessionClose ==
    /\ unit.pc = "close"
    /\ unit' = [unit EXCEPT !.pc = "ended", !.session_open = FALSE,
                            !.tx = IF @ = "active" THEN "rolled_back" ELSE @,
                            !.closed = @ + 1]
    /\ UNCHANGED <<orch_vars, llm_vars, wire, received, payload_in, naming, media, vad, pair>>

NextSession ==
    \/ \E ready \in BOOLEAN : SessionEnter(ready)
    \/ \E change \in Changes : BodyChange(change)
    \/ \E outcome \in UnitOutcomes : BodyEnds(outcome)
    \/ \E outcome \in UnitOutcomes : SessionCommit(outcome)
    \/ SessionRollback
    \/ SessionClose

SpecSession == InitSession /\ [][NextSession]_vars

(***************************************************************************)
(* SpecPair: text turns in progress at the same time on several channels   *)
(* for the same conversation.  chat_socket takes no lock for a             *)
(* conversation, so the turns interleave at every await of                 *)
(* handle_text_message; the generation of a turn is one step here, with    *)
(* the reply it gave.                                                      *)
(***************************************************************************)
PairReplies == {<<>>, <<"a">>}

pair_rest == <<chan, sent, pending, turn, turns, voice_enabled, llm_vars, wire, received,
               payload_in, naming, media, vad, unit>>

PairAt(c, pc) == pair[c].pc = pc

\* receive_json on channel c and the call of handle_text_message
PairReceive(c) ==
    /\ PairAt(c, "idle")
    /\ pair' = [pair EXCEPT ![c] = [IdlePairTurn EXCEPT !.pc = "add_user",
                                                        !.text = <<"h", "i">>]]
    /\ UNCHANGED <<db_title, db_msgs, title_calls, title_events, pair_rest>>

\* user_message = await add_message(conversation_id, role="user", ...)
PairAddUser(c, ok) ==
    /\ PairAt(c, "add_user")
    /\ db_msgs' = session(db_msgs, add_message_rows(db_msgs, "user", pair[c].text, <<>>), ok)
    /\ db_title' = session(db_title, add_message_title(db_title), ok)
    /\ pair' = [pair EXCEPT ![c] = IF ok THEN [@ EXCEPT !.pc = "load",
                                                        !.user_message_id = NextId]
                                   ELSE [@ EXCEPT !.pc = "failed"]]
    /\ UNCHANGED <<title_calls, title_events, pair_rest>>

\* messages = await self._load_messages(conversation_id)
PairLoad(c, ok) ==
    /\ PairAt(c, "load")
    /\ pair' = [pair EXCEPT ![c] = IF ok THEN [@ EXCEPT !.pc = "stream",
                                                        !.messages = _load_messages(db_msgs)]
                                   ELSE [@ EXCEPT !.pc = "failed"]]
    /\ UNCHANGED <<db_title, db_msgs, title_calls, title_events, pair_rest>>

\* async for event in llm.stream_chat(llm_messages): the loop ends with the
\* pieces in buffer, or stream_chat raises
PairStream(c, ok, reply) ==
    /\ PairAt(c, "stream")
    /\ pair' = [pair EXCEPT ![c] = IF ok THEN [@ EXCEPT !.pc = "after_stream",
                                                        !.buffer = IF reply = <<>> THEN <<>>
                                                                   ELSE <<reply>>]
                                   ELSE [@ EXCEPT !.pc = "failed"]]
    /\ UNCHANGED <<db_title, db_msgs, title_calls, title_events, pair_rest>>

\* if buffer: assistant_message = await add_message(..., role="assistant", ...)
PairPersistAssistant(c, ok) ==
    /\ PairAt(c, "after_stream")
    /\ IF ReplyIsEmpty(pair[c].buffer)
       THEN /\ pair' = [pair EXCEPT ![c] = [@ EXCEPT !.pc = "synth"]]
            /\ UNCHANGED <<db_title, db_msgs>>
       ELSE /\ db_msgs' = session(db_msgs,
                                  add_message_rows(db_msgs, "assistant",
                                                   full_content(pair[c].buffer), <<>>), ok)
            /\ db_title' = session(db_title, add_message_title(db_title), ok)
            /\ pair' = [pair EXCEPT ![c] =
                           IF ok THEN [@ EXCEPT !.pc = "title_check",
                                                !.assistant_message_id = NextId]
                           ELSE [@ EXCEPT !.pc = "failed"]]
    /\ UNCHANGED <<title_calls, title_events, pair_rest>>

\* _maybe_assign_conversation_title up to the call of get_conversation_title
PairTitleCheck(c, ok) ==
    /\ PairAt(c, "title_check")
    /\ pair' = [pair EXCEPT ![c] =
           IF pair[c].text = <<>> \/ full_content(pair[c].buffer) = <<>>
           THEN [@ EXCEPT !.pc = "synth"]
           ELSE IF HasPriorAssistant(pair[c].messages) THEN [@ EXCEPT !.pc = "synth"]
           ELSE IF ~ok THEN [@ EXCEPT !.pc = "failed"]
           ELSE [@ EXCEPT !.pc = IF TitleNotEligible(db_title) THEN "synth"
                                 ELSE "title_infer"]]
    /\ UNCHANGED <<db_title, db_msgs, title_calls, title_events, pair_rest>>

\* proposal = await get_conversation_title(user_message.content, assistant_text)
PairTitleInfer(c, backend) ==
    /\ PairAt(c, "title_infer")
    /\ title_calls' = title_calls + 1
    /\ LET proposal == get_conversation_title(pair[c].text, full_content(pair[c].buffer),
                                              backend)
       IN  pair' = [pair EXCEPT ![c] =
               [@ EXCEPT !.pc = IF proposal = "raise" THEN "failed"
                                ELSE IF proposal = None THEN "synth" ELSE "title_rename",
                         !.proposal = IF proposal = "raise" THEN None ELSE proposal,
                         !.title_calls = @ + 1]]
    /\ UNCHANGED <<db_title, db_msgs, title_events, pair_rest>>

\* updated = await rename_conversation(conversation_id, proposal)
\* return proposal if updated else None
PairTitleRename(c, ok) ==
    /\ PairAt(c, "title_rename")
    /\ db_title' = IF ok /\ db_title # NoConv THEN pair[c].proposal ELSE db_title
    /\ pair' = [pair EXCEPT ![c] =
           IF ok THEN [@ EXCEPT !.pc = "synth",
                                !.new_title = IF db_title = NoConv THEN None
                                              ELSE pair[c].proposal]
           ELSE [@ EXCEPT !.pc = "failed"]]
    /\ UNCHANGED <<db_msgs, title_calls, title_events, pair_rest>>

\* audio_path = await speech_service.synthesize_speech("".join(buffer) or "")
\* and, with a path and an assistant row, update_message_audio_path
PairSynthesize(c, engine, ok) ==
    /\ PairAt(c, "synth")
    /\ LET r == synthesize_speech(full_content(pair[c].buffer), voice_enabled, engine)
           attach == r.result = "path" /\ pair[c].assistant_message_id # 0
           normalized_path == IF IsRelativeTo(SynthesizedFile, MediaRoot)
                              THEN RelativeTo(SynthesizedFile, MediaRoot)
                              ELSE SynthesizedFile
       IN  /\ db_msgs' = IF attach /\ ok
                         THEN update_message_audio_path(db_msgs, pair[c].assistant_message_id,
                                                        normalized_path)
                         ELSE db_msgs
           /\ pair' = [pair EXCEPT ![c] =
                  [@ EXCEPT !.pc = IF r.result = "raise" \/ (attach /\ ~ok) THEN "failed"
                                   ELSE "emit_title"]]
    /\ UNCHANGED <<db_title, title_calls, title_events, pair_rest>>

\* if new_title is not None: yield StreamingChunk(type="conversation_title", ...)
\* and send_json on channel c
PairEmitTitle(c) ==
    /\ PairAt(c, "emit_title")
    /\ title_events' = title_events + (IF pair[c].new_title # None THEN 1 ELSE 0)
    /\ pair' = [pair EXCEPT ![c] =
           [@ EXCEPT !.pc = "done",
                     !.title_events = @ + (IF pair[c].new_title # None THEN 1 ELSE 0)]]
    /\ UNCHANGED <<db_title, db_msgs, title_calls, pair_rest>>

NextPair ==
    \/ \E c \in Channels : PairReceive(c)
    \/ \E c \in Channels, ok \in BOOLEAN : PairAddUser(c, ok)
    \/ \E c \in Channels, ok \in BOOLEAN : PairLoad(c, ok)
    \/ \E c \in Channels, ok \in BOOLEAN, reply \in PairReplies : PairStream(c, ok, reply)
    \/ \E c \in Channels, ok \in BOOLEAN : PairPersistAssistant(c, ok)
    \/ \E c \in Channels, ok \in BOOLEAN : PairTitleCheck(c, ok)
    \/ \E c \in Channels, backend \in TitleOutcomes : PairTitleInfer(c, backend)
    \/ \E c \in Channels, ok \in BOOLEAN : PairTitleRename(c, ok)
    \/ \E c \in Channels, engine \in EngineOutcomes, ok \in BOOLEAN :
          PairSynthesize(c, engine, ok)
    \/ \E c \in Channels : PairEmitTitle(c)

SpecPair == Init /\ [][NextPair]_vars

(***************************************************************************)
(* SpecTitle: one call of get_conversation_title against a title backend   *)
(***************************************************************************)
TitleInputs == {<<>>, <<SP>>, <<"h", "i">>}

TitleWordTokens == <<"a", "b", "c", "d", "e", "f", "g", "h">>
TitleWords(n) == [i \in 1..n |-> <<TitleWordTokens[i]>>]

RECURSIVE JoinSeqs(_, _)
JoinSeqs(parts, sep) ==
    IF parts = <<>> THEN <<>>
    ELSE IF Len(parts) = 1 THEN parts[1]
    ELSE parts[1] \o sep \o JoinSeqs(Tail(parts), sep)

TitlePrefixes == {<<>>, <<"Title", ":">>, <<"note", ":">>, <<"dquote">>, <<SP>>}
TitleSeparators == {<<SP>>, <<SP, SP>>, <<NL>>, <<SP, "-", SP>>}
TitleSuffixes == {<<>>, <<".">>, <<"dquote">>, <<SP, "-">>}

\* the texts a backend answers with
RawTitles ==
    {prefix \o JoinSeqs(TitleWords(n), sep) \o suffix :
        prefix \in TitlePrefixes, n \in 0..MaxWords, sep \in TitleSeparators,
        suffix \in TitleSuffixes}

DictData(choices, choice_message, response, message) ==
    [kind |-> "dict", choices |-> choices, choice_message |-> choice_message,
     response |-> response, message |-> message]

NonDictData ==
    [kind |-> "nondict", choices |-> "absent", choice_message |-> JNull,
     response |-> JNull, message |-> JNull]

JsonResponse(data) == [net |-> "json", data |-> data]

\* the request fails, the status is not a success, the body is not JSON
FailedResponses == [net : {"conn_error", "status_error", "bad_body"}, data : {NoData}]

MessageValues ==
    {JNull, JStr(<<"x">>), JEmptyDict, JMsg("absent", <<>>), JMsg("num", <<>>)}
    \cup {JMsg("str", str) : str \in RawTitles \cup {<<SP>>}}

OpenAIResponses ==
    FailedResponses \cup {JsonResponse(NonDictData)}
    \cup {JsonResponse(DictData(c, JNull, JNull, JNull)) :
             c \in {"absent", "empty", "badtype", "notdict"}}
    \cup {JsonResponse(DictData("dict", m, JNull, JNull)) : m \in MessageValues}

FieldValues ==
    {JNull, JStr(<<>>), JStr(<<SP>>), JStr(<<"a", SP, "b">>), JNum("0"), JNum("5"),
     JEmptyDict, JMsg("absent", <<>>), JMsg("str", <<"a", SP, "b">>)}

GenerateResponses ==
    FailedResponses \cup {JsonResponse(NonDictData)}
    \cup {JsonResponse(DictData("absent", JNull, r, m)) : r, m \in FieldValues}

ChatResponses ==
    FailedResponses \cup {JsonResponse(NonDictData)}
    \cup {JsonResponse(DictData("absent", JNull, r, m)) : r, m \in FieldValues}

InitTitle ==
    /\ OrchIdle
    /\ LLMIdle
    /\ wire = <<>>
    /\ received = <<>>
    /\ payload_in = <<>>
    /\ naming = IdleNaming
    /\ media = IdleMedia
    /\ vad = IdleVad
    /\ unit = IdleUnit
    /\ pair = IdlePair

\* "if title is None" between the attempts
TitleIsNone(title) == title.t = "null"

\* get_conversation_title is called: the inputs are stripped and checked
TitleCall(user_message, assistant_message) ==
    /\ naming.pc = "idle"
    /\ naming' = [IdleNaming EXCEPT
           !.user_message = user_message,
           !.assistant_message = assistant_message,
           !.pc = IF get_conversation_title(user_message, assistant_message, "ask") = None
                  THEN "done" ELSE "openai"]
    /\ UNCHANGED <<orch_vars, llm_vars, wire, received, payload_in, media, vad, unit, pair>>

\* one of the three requests: r is what the request function does, next is
\* where get_conversation_title goes when the function returned None
AttemptStep(url, r, next) ==
    /\ naming' =
         IF r.act = "raise"
         THEN [naming EXCEPT !.pc = "raised", !.urls = Append(@, url),
                             !.result = TitleRaised]
         ELSE [naming EXCEPT !.pc = IF TitleIsNone(r.value) THEN next ELSE "sanitize",
                             !.urls = Append(@, url),
                             !.values = Append(@, r.value),
                             !.title = r.value]
    /\ UNCHANGED <<orch_vars, llm_vars, wire, received, payload_in, media, vad, unit, pair>>

\* title = await _request_openai_style_title(...)
TitleAttemptOpenAI(resp) ==
    /\ naming.pc = "openai"
    /\ AttemptStep("/v1/chat/completions", _request_openai_style_title(resp), "generate")

\* if title is None: title = await _request_LLM_title(...)
TitleAttemptGenerate(resp) ==
    /\ naming.pc = "generate"
    /\ AttemptStep("/api/generate", _request_LLM_title(resp), "chat")

\* if title is None: title = await _request_LLM_chat_title(...)
\* if title is None: return None
TitleAttemptChat(resp) ==
    /\ naming.pc = "chat"
    /\ AttemptStep("/api/chat", _request_LLM_chat_title(resp), "done")

\* return _sanitize_title(title)
TitleSanitize ==
    /\ naming.pc = "sanitize"
    /\ LET result == _sanitize_title(naming.title)
       IN  naming' = [naming EXCEPT
               !.pc = IF result.kind = "raise" THEN "raised" ELSE "done",
               !.result = result]
    /\ UNCHANGED <<orch_vars, llm_vars, wire, received, payload_in, media, vad, unit, pair>>

NextTitle ==
    \/ \E user_message \in TitleInputs, assistant_message \in TitleInputs :
          TitleCall(user_message, assistant_message)
    \/ \E resp \in OpenAIResponses : TitleAttemptOpenAI(resp)
    \/ \E resp \in GenerateResponses : TitleAttemptGenerate(resp)
    \/ \E resp \in ChatResponses : TitleAttemptChat(resp)
    \/ TitleSanitize

SpecTitle == InitTitle /\ [][NextTitle]_vars

(***************************************************************************)
(* Properties of LLMClient.stream_chat (SpecLLM)                           *)
(***************************************************************************)
FallbackWire == SelectSeq(wire, LAMBDA w : w.proto = "fallback")

\* everything stream_chat has produced for its caller so far, in order
CallerView ==
    received \o (IF llm_out = NoEvent THEN <<>> ELSE <<llm_out>>) \o llm_queue

RECURSIVE BackendEvents(_)
\* the fragments and the done flag the /api/generate backend sent, in its order
BackendEvents(ws) ==
    IF ws = <<>> THEN <<>>
    ELSE LET l == Head(ws).line
         IN  IF l.body # "chunk" THEN BackendEvents(Tail(ws))
             ELSE (IF l.has_response THEN <<[message |-> [content |-> l.response]]>>
                   ELSE <<>>)
                  \o (IF l.done THEN <<[done |-> TRUE]>> ELSE BackendEvents(Tail(ws)))

RECURSIVE FlatPrompt(_)
FlatPrompt(ms) ==
    IF ms = <<>> THEN <<>>
    ELSE <<Head(ms).role, ":", SP>> \o FormatContent(Head(ms).content)
         \o (IF Len(ms) > 1 THEN <<NL>> \o FlatPrompt(Tail(ms)) ELSE <<>>)

PrimaryFailedSilent == Len(requests) = 2 /\ yields.primary = 0

\* C2: when the chat-completions protocol fails before it yielded anything, the
\* second request is /api/generate with the prompt flattened from the first
\* request's messages (system message first, then the caller's list), the caller
\* gets exactly the fallback backend's fragments and done flag, in the backend's
\* order and as {message:{content}} / {done} events, and an exception reaches
\* the caller only if the fallback itself failed.
C2_FallbackTransparent ==
    PrimaryFailedSilent =>
        /\ requests[1].url = "/v1/chat/completions"
        /\ requests[1].messages =
               <<[role |-> "system", content |-> TextContent(SystemPrompt)]>> \o payload_in
        /\ requests[2].url = "/api/generate"
        /\ requests[2].prompt = FlatPrompt(requests[1].messages)
        /\ CallerView = BackendEvents(FallbackWire)
        /\ llm_pc = "raised" => "fallback" \in failures

C2_Witness ==
    /\ PrimaryFailedSilent
    /\ llm_pc = "returned"
    /\ Len(payload_in) = 3
    /\ received = <<[message |-> [content |-> <<"b">>]],
                    [message |-> [content |-> <<"a">>]], [done |-> TRUE]>>

\* C3: the fallback is started only if the primary protocol has yielded nothing;
\* the caller never gets fragments of both protocols in one generation.
C3_FallbackOnlyBeforeData ==
    /\ yields.primary > 0 => Len(requests) < 2
    /\ ~(yields.primary > 0 /\ yields.fallback > 0)

\* C4: a failure of the primary protocol never reaches the caller, a failure of
\* the fallback protocol (connection or status, a malformed line, a read error)
\* always does and ends the generation, and at most two requests are made,
\* chat-completions first and /api/generate second.
C4_ErrorPolicy ==
    /\ llm_pc = "raised" <=> "fallback" \in failures
    /\ Len(requests) <= 2
    /\ \A i \in 1..Len(requests) :
          requests[i].url = IF i = 1 THEN "/v1/chat/completions" ELSE "/api/generate"
    /\ "fallback" \in failures => "primary" \in failures /\ llm_out = NoEvent /\ llm_queue = <<>>
    /\ (FallbackWire # <<>> /\ FallbackWire[Len(FallbackWire)].line.body = "badjson")
          => llm_pc = "raised"

C4_Witness ==
    /\ llm_pc = "raised"
    /\ failures = {"primary", "fallback"}
    /\ Len(requests) = 2
    /\ FallbackWire # <<>> /\ FallbackWire[Len(FallbackWire)].line.body = "badjson"
    /\ yields.fallback > 0

\* C11: when the chat-completions request connected and its stream ended (by
\* [DONE] or by the end of the lines) without any content fragment and without
\* an exception, stream_chat returns: it does not raise and makes no second
\* request.
C11_EmptyGenerationReturns ==
    (Len(requests) >= 1 /\ "primary" \notin failures /\ yields.primary = 0) =>
        /\ Len(requests) = 1
        /\ llm_pc \in {"p_stream", "finishing", "returned"}
        /\ \A i \in 1..Len(CallerView) : IsDone(CallerView[i])

C11_Witness ==
    /\ llm_pc = "returned"
    /\ failures = {}
    /\ Len(requests) = 1
    /\ Len(wire) = 2 /\ wire[1].line.body = "delta" /\ wire[2].line.body = "nochoices"
    /\ received = <<>>

(***************************************************************************)
(* Properties of a turn (Spec) and of a conversation (SpecConv)            *)
(***************************************************************************)
IsChunk(m) == "type" \in DOMAIN m

SentTypes == [i \in 1..Len(sent) |-> IF IsChunk(sent[i]) THEN sent[i].type ELSE "error"]

Emitted(type) ==
    \/ \E i \in 1..Len(sent) : SentTypes[i] = type
    \/ pending # NoChunk /\ pending.type = type

EventRank(type) ==
    CASE type = "transcription" -> 0
      [] type = "assistant_delta" -> 1
      [] type = "conversation_title" -> 2
      [] type = "assistant_audio" -> 3
      [] OTHER -> 4

\* C1: the events of one turn come in the order transcription (voice turns only,
\* first, at most one), assistant_delta (any number), conversation_title (at
\* most one), assistant_audio (at most one); so a title is sent before the audio.
C1_EventOrder ==
    \A i, j \in 1..Len(sent) :
        i < j =>
            /\ EventRank(SentTypes[i]) <= EventRank(SentTypes[j])
            /\ SentTypes[i] = SentTypes[j] => SentTypes[i] = "assistant_delta"
            /\ SentTypes[j] # "transcription"
            /\ SentTypes[i] = "transcription" => turn.kind = "audio"

\* C5: when stream_chat raises (both protocols failed), the last message sent on
\* the channel for that turn is an error message.
C5_ErrorSignalEndsTurn ==
    (turn.pc = "failed" /\ turn.fail_at = "generation") =>
        /\ sent # <<>>
        /\ ~IsChunk(sent[Len(sent)])
        /\ "error" \in DOMAIN sent[Len(sent)]

RowWith(id, role, content) ==
    \E i \in 1..Len(db_msgs) :
        db_msgs[i].id = id /\ db_msgs[i].role = role /\ db_msgs[i].content = content

\* C6: whatever stage of the turn fails later, the user row this turn inserted
\* is still there with its text, and so is the assistant row once it was
\* inserted: nothing the turn committed is taken back.
C6_NoRollback ==
    /\ turn.user_message_id # 0 => RowWith(turn.user_message_id, "user", turn.text)
    /\ turn.assistant_message_id # 0 =>
           RowWith(turn.assistant_message_id, "assistant", Concat(turn.buffer))
    /\ \A k \in 1..Len(turn.inserted) : \E i \in 1..Len(db_msgs) : db_msgs[i].id = turn.inserted[k]

C6_Witness ==
    /\ turn.pc = "failed" /\ turn.fail_at = "synth"
    /\ RowWith(turn.user_message_id, "user", turn.text)
    /\ RowWith(turn.assistant_message_id, "assistant", <<"a", "a">>)

\* C7: over the turns handled one after another on a conversation,
\* get_conversation_title is called at most once and at most one
\* conversation_title event is sent.
C7_TitleAtMostOnce == title_calls <= 1 /\ title_events <= 1

C7_Witness ==
    /\ turns = 2 /\ turn.pc = "done"
    /\ turn.assistant_message_id # 0 /\ turn.text # <<>>
    /\ title_calls = 1 /\ title_events = 0
    /\ db_title = Placeholder

LoadedAssistant == \E i \in 1..Len(turn.messages) : turn.messages[i].role = "assistant"

\* C8: a turn whose loaded history holds an assistant message calls no title
\* inference, renames nothing and emits no conversation_title.
C8_NoTitleAfterFirstReply ==
    LoadedAssistant =>
        /\ turn.title_calls = 0
        /\ turn.renames = 0
        /\ turn.new_title = None
        /\ ~Emitted("conversation_title")

C8_Witness ==
    /\ LoadedAssistant
    /\ turn.pc = "done"
    /\ turn.assistant_message_id # 0 /\ turn.text # <<>>
    /\ db_title = Placeholder

\* C9: when the title read at the eligibility check is not the placeholder, the
\* turn calls no title inference, renames nothing, emits no conversation_title,
\* and no title stage fails.
C9_NamedConversationSkips ==
    (turn.checked_title # None /\ turn.checked_title # Placeholder) =>
        /\ turn.title_calls = 0
        /\ turn.renames = 0
        /\ turn.new_title = None
        /\ ~Emitted("conversation_title")
        /\ turn.fail_at \notin {"title_check", "title", "rename"}
        /\ turn.pc \in {"synth", "attach_synth", "emit_title", "finish", "done",
                        "failed", "aborted"}

C9_Witness ==
    /\ turn.checked_title = "Trip Notes"
    /\ ~LoadedAssistant
    /\ turn.assistant_message_id # 0
    /\ turn.pc = "done"
    /\ Emitted("assistant_audio")

\* C10: when the stream completed and the reply buffer is empty, no assistant
\* row is inserted, no title inference is called, no conversation_title and no
\* assistant_audio is emitted, and the turn does not fail.
C10_EmptyReply ==
    (turn.stream_done /\ turn.buffer = <<>>) =>
        /\ turn.assistant_message_id = 0
        /\ \A i \in 1..Len(db_msgs) :
               db_msgs[i].id \in {turn.inserted[k] : k \in 1..Len(turn.inserted)}
                   => db_msgs[i].role = "user"
        /\ turn.title_calls = 0
        /\ ~Emitted("conversation_title")
        /\ ~Emitted("assistant_audio")
        /\ turn.pc \in {"after_stream", "synth", "emit_title", "finish", "done"}

C10_Witness ==
    /\ turn.stream_done /\ turn.buffer = <<>>
    /\ turn.pc = "done"
    /\ voice_enabled
    /\ turn.text # <<>>

AudioAttached ==
    \E i \in 1..Len(db_msgs) :
        db_msgs[i].id = turn.assistant_message_id /\ db_msgs[i].audio_path # <<>>

\* C12: a failure inside synthesize_speech (the engine raising, the file write
\* failing) never fails the turn: the turn goes on, emits no assistant_audio,
\* and, once it is over, has emitted the conversation_title of a title it
\* assigned.
C12_SynthesisFailureAbsorbed ==
    turn.synth_error # None =>
        /\ turn.pc # "failed"
        /\ ~Emitted("assistant_audio")
        /\ (turn.pc = "done" /\ turn.new_title # None) => Emitted("conversation_title")

\* C13: synthesize_speech is called at most once in a turn; a turn with a
\* non-empty buffer that is past the synthesis step has called it exactly once,
\* on the concatenated buffer, whether or not it assigned a title; with voice
\* output disabled no audio path is attached to the assistant message and no
\* assistant_audio is emitted.
C13_SynthesisOncePerReply ==
    /\ turn.synth_calls <= 1
    /\ (turn.buffer # <<>> /\ turn.pc \in {"attach_synth", "emit_title", "finish", "done"}) =>
           turn.synth_calls = 1 /\ turn.synth_text = Concat(turn.buffer)
    /\ ~voice_enabled => ~Emitted("assistant_audio") /\ ~AudioAttached

C13_Witness ==
    /\ ~voice_enabled
    /\ turn.pc = "done"
    /\ turn.buffer = <<<<"a">>, <<"a">>>>
    /\ turn.synth_calls = 1 /\ turn.synth_text = <<"a", "a">>
    /\ turn.new_title = None /\ turn.title_calls = 0
    /\ turn.assistant_message_id # 0

(***************************************************************************)
(* Properties of get_conversation_title (SpecTitle)                        *)
(***************************************************************************)
TitleUrls == <<"/v1/chat/completions", "/api/generate", "/api/chat">>

TitleInputsBlank ==
    StrStrip(naming.user_message) = <<>> \/ StrStrip(naming.assistant_message) = <<>>

\* an attempt's value that is no result: null or the empty string
NoResult(v) == v.t = "null" \/ (v.t = "str" /\ v.s = <<>>)

\* C14: get_conversation_title never raises, whatever the three backends answer.
C14_TitleNeverRaises == naming.pc # "raised"

\* C15: the requests go to chat-completions, /api/generate, /api/chat in that
\* order; a later attempt is made only when every earlier one gave no result,
\* and a call that stops before the third attempt stops because its last
\* attempt gave a result, which is the text that is sanitized; with an input
\* that is empty once stripped no request is made and the result is None.
C15_TitleAttemptsInOrder ==
    LET n == Len(naming.urls)
    IN  /\ n <= 3 /\ naming.urls = SubSeq(TitleUrls, 1, n)
        /\ (naming.pc # "idle" /\ TitleInputsBlank) =>
               n = 0 /\ naming.pc = "done" /\ naming.result = NoTitle
        /\ \A k \in 1..Len(naming.values) : k < n => NoResult(naming.values[k])
        /\ (naming.pc \in {"sanitize", "done"} /\ ~TitleInputsBlank) =>
               /\ Len(naming.values) = n
               /\ n < 3 => ~NoResult(naming.values[n])
               /\ naming.title = naming.values[n]

\* C16: for a raw title string, _sanitize_title gives None or a title of 2 to 5
\* words; fewer than 2 words left after the cleaning give None, more than 5
\* give the first 5 joined by single spaces; applying it again to the same
\* string gives the same result.
C16_SanitizedTitleWords ==
    (naming.pc = "done" /\ naming.title.t = "str") =>
        LET rest == SplitWords(CleanTitle(naming.title.s))
            r == naming.result
            out == SplitWords(r.title)
        IN  /\ r.kind \in {"none", "title"}
            /\ r.kind = "title" => Len(out) >= 2 /\ Len(out) <= 5
            /\ Len(rest) < 2 => r.kind = "none"
            /\ Len(rest) > 5 =>
                   /\ r.kind = "title"
                   /\ r.title = rest[1] \o <<SP>> \o rest[2] \o <<SP>> \o rest[3]
                                \o <<SP>> \o rest[4] \o <<SP>> \o rest[5]
            /\ r = _sanitize_title(naming.title)

C16_Witness ==
    /\ naming.pc = "done"
    /\ naming.title.t = "str"
    /\ StartsWith(naming.title.s, <<"Title", ":">>)
    /\ Len(SplitWords(CleanTitle(naming.title.s))) > 5
    /\ naming.result = TitleIs(<<"a", SP, "b", SP, "c", SP, "d", SP, "e">>)

(***************************************************************************)
(* Properties of chat_socket and of voice turns                            *)
(***************************************************************************)
\* the error code of a malformed request, from what the request holds
ExpectedError(req) ==
    IF req.conversation_id = None \/ req.type = None THEN "invalid_payload"
    ELSE IF req.type = "audio" /\ ~req.has_audio THEN "missing_audio_path"
    ELSE "unsupported_type"

Malformed(req) ==
    \/ req.conversation_id = None \/ req.type = None
    \/ req.type = "audio" /\ ~req.has_audio
    \/ req.type \notin {"text", "audio"}

C17_RejectedState ==
    /\ turn.pc = "rejected" <=> (turns > 0 /\ Malformed(turn.req))
    /\ turn.pc = "rejected" =>
          /\ sent = <<[error |-> ExpectedError(turn.req)]>>
          /\ pending = NoChunk
          /\ chan \in {"idle", "disconnected"}
          /\ turn.inserted = <<>> /\ turn.user_message_id = 0
          /\ turn.synth_calls = 0 /\ turn.title_calls = 0
          /\ turn.text = <<>> /\ turn.buffer = <<>>
          /\ requests = <<>> /\ llm_pc = "idle"

\* the step that receives a malformed request
C17_RejectionStep ==
    turns' = turns + 1 /\ turn'.pc = "rejected" =>
        /\ db_msgs' = db_msgs /\ db_title' = db_title
        /\ title_calls' = title_calls /\ title_events' = title_events
        /\ Len(sent') = 1
        /\ chan' = "idle"

\* C17: a malformed request (no conversation_id or type, audio without an audio
\* reference, an unsupported type) is answered with exactly one error message
\* carrying its code; nothing is persisted, transcribed, generated or
\* synthesized for it; and chat_socket is back at receive_json, so the channel
\* stays open for the next request.
C17_MalformedRequestRejected == []C17_RejectedState /\ [][C17_RejectionStep]_vars

C17_Witness ==
    /\ turn.after_rejected
    /\ turn.pc = "done"
    /\ turn.assistant_message_id # 0
    /\ Len(db_msgs) = 2
    /\ turns = 2

\* the chunks of the current turn that were yielded and not lost
Events == sent \o (IF pending = NoChunk THEN <<>> ELSE <<pending>>)

Transcribed ==
    /\ turn.kind = "audio"
    /\ turn.pc \notin {"transcribe", "rejected"}
    /\ ~(turn.pc = "failed" /\ turn.fail_at = "transcribe")

UserRowPersisted ==
    /\ turn.pc # "add_user"
    /\ ~(turn.pc = "failed" /\ turn.fail_at = "add_user")
    /\ ~(turn.pc = "aborted" /\ turn.user_message_id = 0)

GenerationStarted ==
    turn.pc \in {"after_stream", "title_check", "title_infer", "title_rename", "synth",
                 "attach_synth", "emit_title", "finish", "done"}

\* C18: a voice turn whose transcript is empty yields one transcription event
\* with empty content as its first event, then runs as a text turn with empty
\* text: the user row has empty content, the history holding it is what the
\* backend is asked to continue, and the turn can run to its end.
C18_EmptyTranscriptRuns ==
    Transcribed /\ turn.text = <<>> =>
        /\ turn.pc # "aborted" \/ sent # <<>> =>
              /\ Events # <<>>
              /\ Events[1].type = "transcription"
              /\ Events[1].data.content = <<>>
              /\ Cardinality({i \in 1..Len(Events) : Events[i].type = "transcription"}) = 1
        /\ UserRowPersisted =>
              /\ turn.user_message_id \in 1..Len(db_msgs)
              /\ db_msgs[turn.user_message_id].role = "user"
              /\ db_msgs[turn.user_message_id].content = <<>>
        /\ GenerationStarted =>
              /\ turn.messages # <<>>
              /\ turn.messages[Len(turn.messages)].role = "user"
              /\ turn.messages[Len(turn.messages)].content = <<>>
              /\ turn.stream_done

C18_Witness ==
    /\ Transcribed /\ turn.text = <<>>
    /\ turn.pc = "done"
    /\ turn.assistant_message_id # 0
    /\ Len(sent) >= 2
    /\ sent[1].type = "transcription"

ReachedGeneration == turn.pc = "stream" \/ GenerationStarted

\* the audio reference carried by the turn's transcription event
EventAudioRef == Events[1].data.audio_path

\* C19: in a voice turn that has reached generation, the user row carries an
\* audio_path, and it equals the audio reference of the transcription event,
\* whatever audio_path and stored_audio_path were (stored_audio_path absent
\* included).
C19_UserRowCarriesEventRef ==
    Transcribed /\ ReachedGeneration /\ Events # <<>> =>
        /\ db_msgs[turn.user_message_id].audio_path # <<>>
        /\ db_msgs[turn.user_message_id].audio_path = EventAudioRef

\* the same for the calls chat_socket can make
C19_UserRowCarriesEventRef_Socket ==
    Transcribed /\ ReachedGeneration /\ Events # <<>> =>
        db_msgs[turn.user_message_id].audio_path = EventAudioRef

\* the turn was abandoned while a reply fragment was being delivered
AbortedInGeneration == turn.pc = "aborted" /\ turn.buffer # <<>> /\ ~turn.stream_done

C20_AbortedState ==
    turn.pc = "aborted" =>
        /\ chan \notin {"turn", "closing"}
        /\ turn.user_message_id # 0 =>
              /\ turn.user_message_id \in 1..Len(db_msgs)
              /\ db_msgs[turn.user_message_id].role = "user"
              /\ db_msgs[turn.user_message_id].content = turn.text
        /\ turn.assistant_message_id = 0 =>
              \A i \in 1..Len(db_msgs) :
                  db_msgs[i].id > turn.user_message_id => db_msgs[i].role # "assistant"

C20_AbortedStep ==
    turn.pc = "aborted" /\ turn'.pc = "aborted" =>
        /\ yields' = yields /\ requests' = requests /\ wire' = wire
        /\ db_msgs' = db_msgs
        /\ llm_pc' \in {llm_pc, "closed"}
        /\ llm_pc = "closed" => llm_pc' = "closed"

\* From the first send_json that fails: no further line is read from the
\* backend and no further request is made for that turn, the backend stream is
\* eventually closed, and the turn's user row stays.
AbortAfterFailedSend ==
    /\ []C20_AbortedState
    /\ [][C20_AbortedStep]_vars
    /\ (AbortedInGeneration /\ LLMRunning) ~> (llm_pc = "closed")

AbortAfterFailedSend_Reached ==
    /\ AbortedInGeneration
    /\ llm_pc = "closed"
    /\ yields.primary > 0
    /\ Len(db_msgs) = 1

\* the channel was closed while stream_chat was being iterated
ClosedInGeneration == turn.closed_at = "stream"

\* C20: when the channel closes while the turn is generating, the generation is
\* aborted: no fragment is read from the backend after the close, the stream
\* does not run to its end and no reply is persisted; the user row stays.
C20_AbortOnClose ==
    ClosedInGeneration =>
        /\ turn.user_message_id \in 1..Len(db_msgs)
        /\ db_msgs[turn.user_message_id].role = "user"
        /\ ~turn.stream_done
        /\ turn.assistant_message_id = 0
        /\ TotalYields = turn.closed_yields

\* the stream ran to its end and the reply was persisted after the close
C20_GenerationCompletedAfterClose ==
    ~(ClosedInGeneration /\ turn.stream_done /\ turn.assistant_message_id # 0)

(***************************************************************************)
(* Properties of file references (SpecPaths)                               *)
(***************************************************************************)
\* C21: whatever reference a request carries, the path stored on the message is
\* relative to the media root and names a file under it, and the file opened
\* for transcription or for the prompt lies under the media root.
C21_PathsStayUnderMediaRoot ==
    /\ media.row # <<>> =>
          /\ ~IsAbsolute(media.row)
          /\ UnderMediaRoot(JoinPath(MediaRoot, media.row))
    /\ media.read # <<>> => UnderMediaRoot(media.read)

\* a reference without ".." that is relative or lies under the media root
PlainRef(ref) ==
    /\ \A i \in 1..Len(ref) : ref[i] # ".."
    /\ IsAbsolute(ref) => IsRelativeTo(ref, MediaRoot)

\* the same for the plain references only
C21_PlainRefsStay == PlainRef(media.ref) => C21_PathsStayUnderMediaRoot

(***************************************************************************)
(* Properties of trim_silence (SpecVad)                                    *)
(***************************************************************************)
VadReturned == vad.pc \in {"done", "done_again", "raised_again"}

NoSpeech == \A i \in 1..Len(vad.speech_flags) : vad.speech_flags[i] = "silence"

\* C22: when the classifier flags no frame of the buffer as speech,
\* trim_silence returns the empty buffer.
C22_NoSpeechGivesEmpty ==
    (VadReturned /\ NoSpeech) => vad.result = <<>>

C22_Witness ==
    /\ vad.pc = "done"
    /\ Len(vad.speech_flags) >= 2
    /\ NoSpeech
    /\ vad.result = <<>>
    /\ vad.pcm16 # <<>>

\* C23: with a frame flagged as speech, trim_silence returns the bytes from
\* first_speech_frame * frame_bytes up to (last_speech_frame + 1) * frame_bytes,
\* capped at the length of the buffer; frame_bytes is sample_rate *
\* frame_duration_ms / 1000 * 2; every frame is classified exactly once; and a
\* frame-aligned buffer of speech frames only comes back byte for byte.
C23_SpeechSpanReturned ==
    (VadReturned /\ ~NoSpeech) =>
        LET n == Len(vad.speech_flags)
            frame_bytes == (SampleRate * FrameDurationMs * 2) \div 1000
            first == CHOOSE i \in 1..n :
                        /\ vad.speech_flags[i] = "speech"
                        /\ \A j \in 1..(i - 1) : vad.speech_flags[j] # "speech"
            last == CHOOSE i \in 1..n :
                        /\ vad.speech_flags[i] = "speech"
                        /\ \A j \in (i + 1)..n : vad.speech_flags[j] # "speech"
            stop == IF last * frame_bytes < Len(vad.pcm16)
                    THEN last * frame_bytes ELSE Len(vad.pcm16)
        IN  /\ _frame_bytes * 1000 = SampleRate * FrameDurationMs * 2
            /\ vad.result = [k \in 1..(stop - (first - 1) * frame_bytes) |->
                                vad.pcm16[(first - 1) * frame_bytes + k]]
            /\ vad.classified = vad.frames
            /\ n = (Len(vad.pcm16) + frame_bytes - 1) \div frame_bytes
            /\ \A i \in 1..n :
                  vad.frames[i] = SubSeq(vad.pcm16, (i - 1) * frame_bytes + 1,
                                         Min({i * frame_bytes, Len(vad.pcm16)}))
            /\ ((\A i \in 1..n : vad.speech_flags[i] = "speech")
                    /\ Len(vad.pcm16) % frame_bytes = 0) => vad.result = vad.pcm16

C23_Witness ==
    /\ vad.pc = "done"
    /\ vad.speech_flags = <<"silence", "speech", "silence">>
    /\ vad.result = SubSeq(vad.pcm16, 3, 4)
    /\ Len(vad.pcm16) = 5

\* C24: with a classifier that is a fixed function of the bytes of a frame,
\* trimming a trimmed buffer gives the same buffer, whatever the length of the
\* buffer is.
C24_TrimIdempotent ==
    vad.pc = "done_again" => vad.again = vad.result

C24_Witness ==
    /\ vad.pc = "done_again"
    /\ Len(vad.pcm16) % _frame_bytes # 0
    /\ vad.speech_flags[1] = "silence"
    /\ vad.speech_flags[Len(vad.speech_flags)] = "speech"
    /\ vad.again = vad.result
    /\ vad.result # <<>>

\* C25: a buffer shorter than one frame (empty included) comes back unmodified,
\* and no frame shorter than frame_bytes, the trailing one of a longer buffer
\* included, is handed to the classifier.
C25_PartialFrameNotClassified ==
    /\ (vad.pc # "idle" /\ vad.pc # "classify" /\ Len(vad.pcm16) < _frame_bytes) =>
          /\ vad.pc \in {"done", "done_again", "raised_again"}
          /\ vad.result = vad.pcm16
    /\ \A i \in 1..Len(vad.classified) : Len(vad.classified[i]) = _frame_bytes

(***************************************************************************)
(* Properties of the reply text (SpecFrag, Spec)                           *)
(***************************************************************************)
\* the contents of the assistant_delta chunks yielded so far, in order
DeltaContents ==
    LET deltas == SelectSeq(Events, LAMBDA m : IsChunk(m) /\ m.type = "assistant_delta")
    IN  [i \in 1..Len(deltas) |-> deltas[i].data.content]

\* the text holds "<|" and, further on, "|>"
HasControlSpan(text) ==
    \E i, j \in 1..Len(text) :
        /\ i + 2 <= j /\ j + 1 <= Len(text)
        /\ text[i] = "<" /\ text[i + 1] = "|"
        /\ text[j] = "|" /\ text[j + 1] = ">"

\* C26: the text of a turn, the concatenation of its assistant_delta contents
\* and the persisted reply alike, holds no <| ... |> span, whatever fragments
\* the backend sent: a control token split over two fragments or holding a line
\* break included.
C26_NoControlSpanInReply ==
    /\ ~HasControlSpan(Concat(DeltaContents))
    /\ ~HasControlSpan(Concat(turn.buffer))
    /\ turn.assistant_message_id # 0 =>
          ~HasControlSpan(db_msgs[turn.assistant_message_id].content)

\* a control token that arrives whole, on one line of one fragment, is removed
C26_WholeTokensRemoved ==
    \A i \in 1..Len(turn.buffer) :
        (\A k \in 1..Len(turn.buffer[i]) : turn.buffer[i][k] # NL) =>
            ~HasControlSpan(turn.buffer[i])

(***************************************************************************)
(* The completion signal of stream_chat (SpecLLM)                          *)
(***************************************************************************)
DonePositions == {i \in 1..Len(CallerView) : IsDone(CallerView[i])}

\* stream_chat has ended without raising and its caller has taken every event
ReturnedToCaller == llm_pc = "returned" /\ llm_out = NoEvent /\ llm_queue = <<>>

\* C27: a generation that ends without raising ends with the completion signal:
\* the last event yielded is {done: true}, it is yielded once, and nothing
\* follows it; also when the backend ends the stream without its sentinel.
C27_EndsWithDone ==
    ReturnedToCaller =>
        /\ received # <<>>
        /\ IsDone(received[Len(received)])
        /\ Cardinality(DonePositions) = 1

\* {done: true} is yielded at most once, and nothing is yielded after it
C27_DoneAtMostOnceAndLast ==
    /\ Cardinality(DonePositions) <= 1
    /\ \A i \in DonePositions : i = Len(CallerView)

(***************************************************************************)
(* C28: a history message whose image file is missing                      *)
(***************************************************************************)
\* llm keeps, in order, one entry for every message of msgs that names no
\* image, and at most one image entry for each message that names one
RECURSIVE OthersKept(_, _)
OthersKept(msgs, llm) ==
    IF msgs = <<>> THEN llm = <<>>
    ELSE LET message == Head(msgs)
         IN  IF message.image_path = <<>>
             THEN /\ llm # <<>>
                  /\ Head(llm) = [role |-> message.role,
                                  content |-> TextContent(message.content)]
                  /\ OthersKept(Tail(msgs), Tail(llm))
             ELSE \/ /\ llm # <<>>
                     /\ Head(llm).role = message.role
                     /\ Head(llm).content.kind = "parts"
                     /\ OthersKept(Tail(msgs), Tail(llm))
                  \/ OthersKept(Tail(msgs), llm)

ImageSkipped ==
    /\ \E i \in 1..Len(turn.messages) : turn.messages[i].image_path # <<>>
    /\ Len(turn.llm_messages) < Len(turn.messages)

WireEvents(entry) ==
    IF entry.proto = "primary" THEN OpenAILineStep(entry.line).out
    ELSE LLMLineStep(entry.line).out

\* the fragments of the lines read so far, in the order they were read; done
\* tells whether a completion signal came before the end
RECURSIVE Produced(_)
Produced(lines) ==
    IF lines = <<>> THEN <<>>
    ELSE LET evs == WireEvents(Head(lines))
             msgs == SelectSeq(evs, IsMessage)
         IN  [i \in 1..Len(msgs) |-> msgs[i].message.content] \o Produced(Tail(lines))

\* the fragments that leave something once the control tokens are removed
Forwardable(fragments) ==
    LET cleaned == [i \in 1..Len(fragments) |-> clean_llm_text(fragments[i])]
    IN  SelectSeq(cleaned, LAMBDA c : c # <<>>)

IsPrefixOf(s, t) == Len(s) <= Len(t) /\ SubSeq(t, 1, Len(s)) = s

AssistantPersisted == turn.assistant_message_id # 0

\* C29: the contents of the assistant_delta events of a turn are, in order,
\* the first cleaned fragments its backend produced; once the loop over the
\* generation has ended no further delta is emitted; and the persisted reply
\* is the concatenation of exactly these contents.
C29_DeltasFollowFragments ==
    /\ [](/\ IsPrefixOf(DeltaContents, Forwardable(Produced(wire)))
          /\ AssistantPersisted =>
                \E i \in 1..Len(db_msgs) :
                    /\ db_msgs[i].id = turn.assistant_message_id
                    /\ db_msgs[i].role = "assistant"
                    /\ db_msgs[i].content = Concat(DeltaContents))
    /\ [][turn.stream_done => DeltaContents' = DeltaContents]_vars

\* a reply of two fragments, one from each backend, persisted
C29_Witness ==
    /\ AssistantPersisted
    /\ Len(DeltaContents) = 2
    /\ DeltaContents[1] # DeltaContents[2]
    /\ \E i, j \in 1..Len(wire) : wire[i].proto = "primary" /\ wire[j].proto = "fallback"

(***************************************************************************)
(* C30: how a unit of work of DatabaseManager.session ends                 *)
(***************************************************************************)
UnitEnded == unit.pc = "ended" /\ unit.made

UnitCommitted ==
    /\ unit.error = None
    /\ unit.tx = "committed"
    /\ unit.rollbacks = 0
    /\ unit.store = unit.before \o unit.changes

UnitRolledBack ==
    /\ unit.error \in {"Exception", "CancelledError"}
    /\ unit.tx = "rolled_back"
    /\ unit.error = "Exception" => unit.rollbacks = 1
    /\ unit.store = unit.before

\* C30: a unit of work that has ended either returned with its changes
\* committed, or raised the exception of its body or of its commit with the
\* transaction rolled back and the database as it was before the unit; in both
\* cases its session is closed, and the sessions opened and not closed are at
\* all times the one of the unit that is running.
C30_UnitCommitsOrRollsBack ==
    /\ UnitEnded =>
          /\ ~unit.session_open
          /\ UnitCommitted \/ UnitRolledBack
          /\ ~(UnitCommitted /\ UnitRolledBack)
    /\ unit.opened - unit.closed =
          (IF unit.pc \in {"body", "commit", "rollback", "close"} THEN 1 ELSE 0)

\* a unit whose commit raised after an earlier unit had committed its changes
C30_Witness ==
    /\ UnitEnded
    /\ unit.count = 2
    /\ unit.before # <<>>
    /\ unit.changes # <<>>
    /\ unit.error = "Exception"
    /\ unit.rollbacks = 1

InferringChannels == {c \in Channels : pair[c].title_calls > 0}

\* the channels whose turn emitted a conversation_title event
TitledChannels == {c \in Channels : pair[c].title_events > 0}

\* C32: with turns in progress at the same time on the same conversation, at
\* most one of them calls get_conversation_title and at most one of them
\* emits a conversation_title event.
C32_TitleInferredOnceAcrossChannels ==
    /\ Cardinality(InferringChannels) <= 1
    /\ Cardinality(TitledChannels) <= 1

\* two turns that both emitted the title they inferred for the conversation
BothTurnsEmitTitle ==
    \A c \in Channels : pair[c].pc = "done" /\ pair[c].title_events = 1

(***************************************************************************)
(* C33: the rename of the orchestrator against a rename by the client      *)
(***************************************************************************)
\* the step in which rename_conversation, called by the turn, updates the row
OrchestratorRenames == turn'.renames = turn.renames + 1

\* C33: the rename of the orchestrator is applied only to a conversation whose
\* stored title is the placeholder at that moment, so a title the client set
\* while the inference was in flight is not replaced.
C33_RenameOnlyOverPlaceholder ==
    [][OrchestratorRenames => db_title = Placeholder]_vars

\* the turn checked the title, and the stored title has changed since
TitleChangedSinceCheck ==
    /\ InTurn /\ turn.pc = "title_rename"
    /\ turn.checked_title = Placeholder
    /\ db_title \notin {Placeholder, NoConv}

(***************************************************************************)
(* C34: the rename of a turn and its conversation_title event              *)
(***************************************************************************)
\* the conversation_title events of the turn
TitleEvents ==
    SelectSeq(Events, LAMBDA m : IsChunk(m) /\ m.type = "conversation_title")

\* the turn renamed the conversation and has ended with every step but the
\* speech synthesis doing what it was asked
EndedAfterRename ==
    /\ turn.renames = 1
    /\ \/ turn.pc = "done"
       \/ turn.pc = "failed" /\ turn.fail_at = "synth"

\* C34: a turn that renamed the conversation has, when it ends, emitted one
\* conversation_title event with that title and the conversation id, whatever
\* the speech synthesis between the rename and the event did; and a
\* conversation_title event is only ever emitted by a turn whose rename
\* updated the row, with the title of that rename.
C34_RenameThenTitleEvent ==
    /\ EndedAfterRename =>
          /\ Len(TitleEvents) = 1
          /\ TitleEvents[1].data = [title |-> turn.proposal,
                                    conversation_id |-> ConversationId]
    /\ TitleEvents # <<>> =>
          /\ turn.renames = 1
          /\ TitleEvents[1].data.title = turn.proposal

\* a conversation_title event is only ever emitted by a turn whose rename
\* updated the row, and a renaming turn that runs to its end emits it
TitleEventOnlyAfterRename ==
    /\ TitleEvents # <<>> =>
          /\ turn.renames = 1
          /\ TitleEvents[1].data.title = turn.proposal
    /\ turn.renames = 1 /\ turn.pc = "done" => Len(TitleEvents) = 1

(***************************************************************************)
(* C35: the prompt of a turn against the stored rows                       *)
(***************************************************************************)
\* the entry of the prompt that stands for a loaded message
IsEntryOf(entry, message) ==
    /\ entry.role = message.role
    /\ IF message.image_path = <<>>
       THEN entry.content = TextContent(message.content)
       ELSE entry.content.kind = "parts"

\* the history the turn loaded is the rows of the conversation in id order,
\* the last of them the user row of this turn
LoadedInIdOrder ==
    /\ Len(turn.messages) <= Len(db_msgs)
    /\ \A i \in 1..Len(turn.messages) :
          /\ db_msgs[i].id = i
          /\ turn.messages[i] = [role |-> db_msgs[i].role, content |-> db_msgs[i].content,
                                 image_path |-> db_msgs[i].image_path]
    /\ turn.user_message_id = Len(turn.messages)

\* C35: the list handed to stream_chat holds one entry for every stored row
\* of the conversation, in id order, and its last entry is the user message
\* this turn persisted, whether or not the image file of that message exists.
C35_PromptEndsWithUserMessage ==
    turn.messages # <<>> =>
        /\ LoadedInIdOrder
        /\ Len(turn.llm_messages) = Len(turn.messages)
        /\ \A i \in 1..Len(turn.llm_messages) :
              IsEntryOf(turn.llm_messages[i], turn.messages[i])

\* the same for a turn whose message names no image: the prompt ends with it
PromptEndsWithTextMessage ==
    turn.messages # <<>> /\ turn.messages[Len(turn.messages)].image_path = <<>> =>
        /\ LoadedInIdOrder
        /\ turn.llm_messages # <<>>
        /\ IsEntryOf(turn.llm_messages[Len(turn.llm_messages)],
                     turn.messages[Len(turn.messages)])

(***************************************************************************)
(* C36: a generation that raises after it gave fragments                   *)
(***************************************************************************)
\* stream_chat has raised and the loop of the turn is about to see it
GenerationRaises == Streaming /\ llm_out = NoEvent /\ llm_pc = "raised"

FailedInGeneration == turn.pc = "failed" /\ turn.fail_at = "generation"

\* the rows of the assistant stored since the user row of this turn
AssistantRows ==
    SelectSeq(db_msgs, LAMBDA r : r.role = "assistant" /\ r.id > turn.user_message_id)

C36_PersistedOnlyAfterStream ==
    /\ turn.assistant_message_id # 0 => turn.stream_done /\ ~FailedInGeneration
    /\ FailedInGeneration =>
          /\ turn.assistant_message_id = 0
          /\ ~turn.stream_done
          /\ AssistantRows = <<>>

C36_RaiseEndsTurn ==
    GenerationRaises /\ turn' # turn =>
        /\ turn'.pc = "failed" /\ turn'.fail_at = "generation"
        /\ db_msgs' = db_msgs

\* C36: the assistant row of a turn exists only once the loop over the
\* generation has ended without an exception; when stream_chat raises, also
\* after assistant_delta events were emitted, the turn ends there and no
\* assistant row is stored, so the text of those deltas is not in the
\* conversation's rows.
C36_NoReplyRowAfterGenerationError ==
    []C36_PersistedOnlyAfterStream /\ [][C36_RaiseEndsTurn]_vars

\* a turn whose generation raised after a delta had been sent
C36_Witness ==
    /\ FailedInGeneration
    /\ DeltaContents # <<>>
    /\ turn.buffer # <<>>
    /\ turn.user_message_id \in 1..Len(db_msgs)

====
